---- MODULE Spec2Model ----
(***************************************************************************)
(* Nutrition resolution: the nutrition-resolve edge function (the serve    *)
(* handler with its cache, provider call, fallback estimator and usage     *)
(* log) and the client service resolveNutrition that invokes it.           *)
(*                                                                         *)
(* Texts are sequences of one-character strings.  Numbers with decimals    *)
(* are fixed point: protein, fat and carbs in tenths, confidences in       *)
(* hundredths.  Time is counted in days.                                   *)
(***************************************************************************)
EXTENDS Integers, Sequences, FiniteSets, TLC

(***************************************************************************)
(* Bounds of the model.                                                    *)
(***************************************************************************)
MaxReq == 2
MaxTime == 8

(***************************************************************************)
(* String primitives of the JavaScript runtime, on character sequences.    *)
(***************************************************************************)
DigitChars == <<"0", "1", "2", "3", "4", "5", "6", "7", "8", "9">>

LowerLetters ==
  {"a", "b", "c", "d", "e", "f", "g", "h", "i", "j", "k", "l", "m",
   "n", "o", "p", "q", "r", "s", "t", "u", "v", "w", "x", "y", "z"}

DigitVal(c) == (CHOOSE n \in 1..10 : DigitChars[n] = c) - 1

Spaces == {" ", "\n", "\t"}

IsSpace(c) == c \in Spaces

ToLowerChar(c) ==
  CASE c = "A" -> "a"
    [] c = "B" -> "b"
    [] c = "C" -> "c"
    [] c = "E" -> "e"
    [] c = "G" -> "g"
    [] c = "O" -> "o"
    [] c = "Z" -> "z"
    [] OTHER -> c

toLowerCase(s) == [i \in 1..Len(s) |-> ToLowerChar(s[i])]

trim(s) ==
  LET idx == {i \in 1..Len(s) : ~IsSpace(s[i])}
  IN  IF idx = {} THEN <<>>
      ELSE LET lo == CHOOSE i \in idx : \A j \in idx : i <= j
               hi == CHOOSE i \in idx : \A j \in idx : j <= i
           IN  SubSeq(s, lo, hi)

\* a.includes(b)
includes(a, b) ==
  \E i \in 1..(Len(a) + 1) :
    /\ i + Len(b) - 1 <= Len(a)
    /\ SubSeq(a, i, i + Len(b) - 1) = b

\* s.split('\n')
RECURSIVE split(_)
split(s) ==
  LET nl == {i \in 1..Len(s) : s[i] = "\n"}
  IN  IF nl = {} THEN <<s>>
      ELSE LET k == CHOOSE i \in nl : \A j \in nl : i <= j
           IN  <<SubSeq(s, 1, k - 1)>> \o split(SubSeq(s, k + 1, Len(s)))

\* parseInt of a non-empty run of digits
RECURSIVE parseInt(_)
parseInt(ds) ==
  IF Len(ds) = 0 THEN 0
  ELSE 10 * parseInt(SubSeq(ds, 1, Len(ds) - 1)) + DigitVal(ds[Len(ds)])

Digits == {DigitChars[n] : n \in 1..10}

\* the length of the longest run of characters of a class, from position i
RunLen(s, i, class) ==
  LET ends == {n \in 0..(Len(s) - i + 1) : \A j \in i..(i + n - 1) : s[j] \in class}
  IN  CHOOSE n \in ends : \A m \in ends : m <= n

\* the least element of a non-empty set of numbers
Min(S) == CHOOSE a \in S : \A b \in S : a <= b

(***************************************************************************)
(* The fallback estimator of the edge function.                            *)
(***************************************************************************)
\* per 100 g: kcal, and protein, fat and carbs in tenths of a gram
nutritionDatabase ==
  << [key |-> <<"c","h","i","c","k","e","n">>, kcal |-> 165, protein |-> 310, fat |-> 36, carbs |-> 0],
     [key |-> <<"b","e","e","f">>, kcal |-> 250, protein |-> 260, fat |-> 150, carbs |-> 0],
     [key |-> <<"r","i","c","e">>, kcal |-> 130, protein |-> 27, fat |-> 3, carbs |-> 280],
     [key |-> <<"p","a","s","t","a">>, kcal |-> 131, protein |-> 50, fat |-> 11, carbs |-> 250],
     [key |-> <<"b","r","e","a","d">>, kcal |-> 265, protein |-> 90, fat |-> 32, carbs |-> 490],
     [key |-> <<"e","g","g">>, kcal |-> 155, protein |-> 130, fat |-> 110, carbs |-> 11],
     [key |-> <<"b","a","n","a","n","a">>, kcal |-> 89, protein |-> 11, fat |-> 3, carbs |-> 230],
     [key |-> <<"a","p","p","l","e">>, kcal |-> 52, protein |-> 3, fat |-> 2, carbs |-> 140],
     [key |-> <<"o","a","t","s">>, kcal |-> 389, protein |-> 169, fat |-> 69, carbs |-> 660],
     [key |-> <<"y","o","g","u","r","t">>, kcal |-> 59, protein |-> 100, fat |-> 4, carbs |-> 36],
     [key |-> <<"c","h","e","e","s","e">>, kcal |-> 402, protein |-> 250, fat |-> 330, carbs |-> 13],
     [key |-> <<"b","r","o","c","c","o","l","i">>, kcal |-> 34, protein |-> 28, fat |-> 4, carbs |-> 70],
     [key |-> <<"p","o","t","a","t","o">>, kcal |-> 77, protein |-> 20, fat |-> 1, carbs |-> 170],
     [key |-> <<"s","a","l","m","o","n">>, kcal |-> 208, protein |-> 250, fat |-> 120, carbs |-> 0],
     [key |-> <<"t","u","n","a">>, kcal |-> 132, protein |-> 280, fat |-> 13, carbs |-> 0] >>

\* a before b in the order a backtracking matcher tries greedy repetitions
TriedBefore(a, b) ==
  \E j \in 1..Len(a) : a[j] > b[j] /\ \A m \in 1..(j - 1) : a[m] = b[m]

FirstTried(S) == CHOOSE a \in S : \A b \in S \ {a} : TriedBefore(a, b)

\* (\d+)\s*([a-z]*)\s*(.+) at position i: the lengths of \d+, \s*, [a-z]*, \s*
Alt1At(s, i) ==
  { t \in (1..Len(s)) \X (0..Len(s)) \X (0..Len(s)) \X (0..Len(s)) :
      /\ t[1] <= RunLen(s, i, Digits)
      /\ t[2] <= RunLen(s, i + t[1], Spaces)
      /\ t[3] <= RunLen(s, i + t[1] + t[2], LowerLetters)
      /\ t[4] <= RunLen(s, i + t[1] + t[2] + t[3], Spaces)
      /\ i + t[1] + t[2] + t[3] + t[4] <= Len(s) }

\* (.+)\s*(\d+)\s*([a-z]*) at position i: the lengths of .+, \s*, \d+
Alt2At(s, i) ==
  { t \in (1..Len(s)) \X (0..Len(s)) \X (1..Len(s)) :
      /\ i + t[1] - 1 <= Len(s)
      /\ t[2] <= RunLen(s, i + t[1], Spaces)
      /\ t[3] <= RunLen(s, i + t[1] + t[2], Digits) }

NoMatch == [matched |-> FALSE, g1 |-> <<>>, g3 |-> <<>>, g4 |-> <<>>, g5 |-> <<>>]

\* the groups 1 and 3 of a match of the first alternative at i
Alt1Groups(s, i, t) ==
  [matched |-> TRUE,
   g1 |-> SubSeq(s, i, i + t[1] - 1),
   g3 |-> SubSeq(s, i + t[1] + t[2] + t[3] + t[4], Len(s)),
   g4 |-> <<>>, g5 |-> <<>>]

\* the groups 4 and 5 of a match of the second alternative at i
Alt2Groups(s, i, t) ==
  [matched |-> TRUE, g1 |-> <<>>, g3 |-> <<>>,
   g4 |-> SubSeq(s, i, i + t[1] - 1),
   g5 |-> SubSeq(s, i + t[1] + t[2], i + t[1] + t[2] + t[3] - 1)]

\* at one position the first alternative is tried before the second
MatchOf(s, i, a1, a2) ==
  IF a1 # {} THEN Alt1Groups(s, i, FirstTried(a1)) ELSE Alt2Groups(s, i, FirstTried(a2))

\* the match at the leftmost position where one of the alternatives matches
MatchAmong(s, at) ==
  IF at = {} THEN NoMatch
  ELSE MatchOf(s, Min(at), Alt1At(s, Min(at)), Alt2At(s, Min(at)))

\* foodLine.match(/(\d+)\s*([a-z]*)\s*(.+)|(.+)\s*(\d+)\s*([a-z]*)/):
\* whether it matched and the groups 1, 3, 4 and 5 (empty when not set)
quantityMatch(s) ==
  MatchAmong(s, {i \in 1..Len(s) : Alt1At(s, i) # {} \/ Alt2At(s, i) # {}})

\* Math.round(x * qty / 100) for a non-negative integer x
ScaleRound(x, qty) == (x * qty + 50) \div 100

\* the first row of the table whose key contains the name or is contained in it
partialMatch(foodName) ==
  {n \in 1..Len(nutritionDatabase) :
     \/ includes(foodName, nutritionDatabase[n].key)
     \/ includes(nutritionDatabase[n].key, foodName)}

exactMatch(foodName) ==
  {n \in 1..Len(nutritionDatabase) : nutritionDatabase[n].key = foodName}

\* the table row used for a food name: exact key, else the first partial
\* match, else 'chicken'
RowAmong(exact, part) ==
  IF exact # {} THEN nutritionDatabase[Min(exact)]
  ELSE IF part # {} THEN nutritionDatabase[Min(part)]
  ELSE nutritionDatabase[1]

lookupNutrition(foodName) == RowAmong(exactMatch(foodName), partialMatch(foodName))

FallbackConfidence == 60

DefaultQty == 100

\* qty of a line, from the match of its quantity
qtyOf(qm) ==
  IF ~qm.matched THEN DefaultQty
  ELSE IF qm.g1 # <<>> THEN parseInt(qm.g1) ELSE parseInt(qm.g5)

\* foodName of a line, from the match of its quantity
foodNameOf(foodLine, qm) ==
  IF ~qm.matched THEN foodLine
  ELSE IF qm.g1 # <<>> THEN qm.g3 ELSE qm.g4

\* the item returned for a line: the macros of the table row scaled by qty / 100
scaledItem(label, qty, nutrition) ==
  [label |-> label, qty |-> qty, unit |-> "g", confidence |-> FallbackConfidence,
   macros |-> [kcal |-> ScaleRound(nutrition.kcal, qty),
               protein |-> ScaleRound(nutrition.protein, qty),
               fat |-> ScaleRound(nutrition.fat, qty),
               carbs |-> ScaleRound(nutrition.carbs, qty)]]

itemOfMatch(line, foodLine, qm) ==
  scaledItem(trim(line), qtyOf(qm), lookupNutrition(foodNameOf(foodLine, qm)))

itemOfLine(line, foodLine) == itemOfMatch(line, foodLine, quantityMatch(foodLine))

\* one item of the fallback response, from one non-blank line
fallbackItem(line) == itemOfLine(line, toLowerCase(trim(line)))

ZeroMacros == [kcal |-> 0, protein |-> 0, fat |-> 0, carbs |-> 0]

\* items.reduce of the four macros
RECURSIVE sumMacros(_)
sumMacros(items) ==
  IF Len(items) = 0 THEN ZeroMacros
  ELSE LET acc == sumMacros(SubSeq(items, 1, Len(items) - 1))
           m == items[Len(items)].macros
       IN  [kcal |-> acc.kcal + m.kcal, protein |-> acc.protein + m.protein,
            fat |-> acc.fat + m.fat, carbs |-> acc.carbs + m.carbs]

\* { items, totals }
withTotals(items) ==
  [hasItems |-> TRUE, items |-> items, hasTotals |-> TRUE, totals |-> sumMacros(items)]

\* foodText.split('\n').filter(line => line.trim().length > 0)
nonBlankLines(foodText) == SelectSeq(split(foodText), LAMBDA line : Len(trim(line)) > 0)

\* the estimator without the default row: a line whose food name matches no
\* key of the table gives no item
knownFood(foodLine) ==
  partialMatch(foodNameOf(foodLine, quantityMatch(foodLine))) # {}

fallbackItems_known(lines) ==
  [n \in 1..Len(SelectSeq(lines, LAMBDA line : knownFood(toLowerCase(trim(line))))) |->
     fallbackItem(SelectSeq(lines, LAMBDA line : knownFood(toLowerCase(trim(line))))[n])]

\* the items in the reverse order of their lines
fallbackItems_reversed(lines) ==
  [n \in 1..Len(lines) |-> fallbackItem(lines[Len(lines) + 1 - n])]

fallbackItems(lines) == [n \in 1..Len(lines) |-> fallbackItem(lines[n])]

generateFallbackResponse(foodText) == withTotals(fallbackItems(nonBlankLines(foodText)))

\* generateFallbackResponse of the multi-provider revision of the function
fallbackItems_multi(lines) ==
  [n \in 1..Len(lines) |->
     [label |-> trim(lines[n]), qty |-> 100, unit |-> "g", confidence |-> 30,
      macros |-> [kcal |-> 100 + (n - 1) * 20,
                  protein |-> 10 * (10 + (n - 1) * 2),
                  fat |-> 10 * (3 + (n - 1)),
                  carbs |-> 10 * (15 + (n - 1) * 3)]]]

generateFallbackResponse_multi(foodText) ==
  withTotals(fallbackItems_multi(nonBlankLines(foodText)))

(***************************************************************************)
(* JavaScript numbers.  The numbers the function computes with are IEEE    *)
(* 754 binary64 values >= 0: zero, or a significand m of 53 bits (most     *)
(* significant first, m[1] = 1) with the exponent e of m[1], the value     *)
(* being the sum of m[i] * 2^(e + 1 - i).  Every operation rounds its      *)
(* exact result to the nearest such value, ties to even.                   *)
(***************************************************************************)
Precision == 53

\* long arithmetic works on limbs of Limb bits, least significant limb first;
\* a quotient is developed to QuotientBits bits before it is rounded
Limb == 10
QuotientBits == 140

FZero == [zero |-> TRUE, e |-> 0, m |-> <<>>]

Zeros(n) == [i \in 1..n |-> 0]

BitsOf(n) ==
  LET len == CHOOSE l \in 1..31 : 2^(l - 1) <= n /\ (l = 31 \/ n < 2^l)
  IN  [i \in 1..len |-> (n \div 2^(len - i)) % 2]

RECURSIVE IntOf(_)
IntOf(bits) ==
  IF Len(bits) = 0 THEN 0
  ELSE 2 * IntOf(SubSeq(bits, 1, Len(bits) - 1)) + bits[Len(bits)]

Increment(bits) ==
  LET k == CHOOSE i \in 1..Len(bits) : bits[i] = 0 /\ \A j \in (i + 1)..Len(bits) : bits[j] = 1
  IN  [i \in 1..Len(bits) |-> IF i < k THEN bits[i] ELSE IF i = k THEN 1 ELSE 0]

\* round to nearest, ties to even: bits has its leading one first, sticky
\* tells that non-zero bits were cut off after the last bit of bits
RoundBits(bits, e, sticky) ==
  IF Len(bits) <= Precision
  THEN [zero |-> FALSE, e |-> e, m |-> bits \o Zeros(Precision - Len(bits))]
  ELSE LET head == SubSeq(bits, 1, Precision)
           rest == sticky \/ \E i \in (Precision + 2)..Len(bits) : bits[i] = 1
           up == bits[Precision + 1] = 1 /\ (rest \/ head[Precision] = 1)
       IN  IF ~up THEN [zero |-> FALSE, e |-> e, m |-> head]
           ELSE IF \A i \in 1..Precision : head[i] = 1
           THEN [zero |-> FALSE, e |-> e + 1, m |-> <<1>> \o Zeros(Precision - 1)]
           ELSE [zero |-> FALSE, e |-> e, m |-> Increment(head)]

FirstOne(bits) == CHOOSE i \in 1..Len(bits) : bits[i] = 1 /\ \A j \in 1..(i - 1) : bits[j] = 0

Normalize(bits, e, sticky) ==
  RoundBits(SubSeq(bits, FirstOne(bits), Len(bits)), e + 1 - FirstOne(bits), sticky)

FromInt(n) == IF n = 0 THEN FZero ELSE Normalize(BitsOf(n), Len(BitsOf(n)) - 1, FALSE)

PadLeft(bits) == Zeros((Limb - (Len(bits) % Limb)) % Limb) \o bits

LimbsOf(bits) ==
  [j \in 1..(Len(PadLeft(bits)) \div Limb) |->
     IntOf(SubSeq(PadLeft(bits), Len(PadLeft(bits)) - Limb * j + 1,
                  Len(PadLeft(bits)) - Limb * (j - 1)))]

BitsOfLimbs(limbs) ==
  [i \in 1..(Limb * Len(limbs)) |->
     (limbs[Len(limbs) - ((i - 1) \div Limb)] \div 2^(Limb - 1 - ((i - 1) % Limb))) % 2]

RECURSIVE Carry(_, _, _)
Carry(cols, k, c) ==
  IF k > Len(cols) /\ c = 0 THEN <<>>
  ELSE <<((IF k <= Len(cols) THEN cols[k] ELSE 0) + c) % 2^Limb>>
       \o Carry(cols, k + 1, ((IF k <= Len(cols) THEN cols[k] ELSE 0) + c) \div 2^Limb)

RECURSIVE Dot(_, _, _, _)
Dot(a, b, k, i) ==
  IF i > Len(a) THEN 0
  ELSE (IF k + 1 - i \in 1..Len(b) THEN a[i] * b[k + 1 - i] ELSE 0) + Dot(a, b, k, i + 1)

FMulCols(a, b) == [k \in 1..(Len(a) + Len(b) - 1) |-> Dot(a, b, k, 1)]

FMulBits(prod, e) == Normalize(prod, e + Len(prod) - 1, FALSE)

FMul(x, y) ==
  IF x.zero \/ y.zero THEN FZero
  ELSE FMulBits(BitsOfLimbs(Carry(FMulCols(LimbsOf(x.m), LimbsOf(y.m)), 1, 0)),
                x.e + y.e - 2 * (Precision - 1))

FAddCols(a, b) ==
  [k \in 1..(IF Len(a) >= Len(b) THEN Len(a) ELSE Len(b)) |->
     (IF k <= Len(a) THEN a[k] ELSE 0) + (IF k <= Len(b) THEN b[k] ELSE 0)]

FAddBits(sum, e) == Normalize(sum, e + Len(sum) - 1, FALSE)

FAddOrdered(x, y) ==
  FAddBits(BitsOfLimbs(Carry(FAddCols(LimbsOf(x.m \o Zeros(x.e - y.e)), LimbsOf(y.m)), 1, 0)),
           y.e - (Precision - 1))

FAdd(x, y) ==
  IF x.zero THEN y
  ELSE IF y.zero THEN x
  ELSE IF x.e >= y.e THEN FAddOrdered(x, y) ELSE FAddOrdered(y, x)

\* the quotient and the remainder of bits (padded to n bits) by d < 2^21
RECURSIVE LongDiv(_, _, _, _, _)
LongDiv(bits, d, n, i, r) ==
  IF i > n THEN [q |-> <<>>, r |-> r]
  ELSE LET t == r * 2^Limb
                + IntOf([j \in 1..Limb |-> IF i + j - 1 <= Len(bits) THEN bits[i + j - 1] ELSE 0])
           rest == LongDiv(bits, d, n, i + Limb, t % d)
       IN  [q |-> BitsOfLimbs(<<t \div d>>) \o rest.q, r |-> rest.r]

FDivBits(res, e) == Normalize(res.q, e, res.r # 0)

FDivInt(x, d) ==
  IF x.zero THEN FZero ELSE FDivBits(LongDiv(x.m, d, QuotientBits, 1, 0), x.e)

\* the number a decimal literal p / q denotes
Literal(p, q) == FDivInt(FromInt(p), q)

\* Math.ceil and Math.round of a number below 2^31
IntPart(x) == IF x.zero \/ x.e < 0 THEN 0 ELSE IntOf(SubSeq(x.m, 1, x.e + 1))

HasFraction(x) == ~x.zero /\ \E i \in 1..Precision : i > x.e + 1 /\ x.m[i] = 1

FCeil(x) == IntPart(x) + (IF HasFraction(x) THEN 1 ELSE 0)

HalfOrMore(x) == ~x.zero /\ x.e >= -1 /\ x.e + 2 <= Precision /\ x.m[x.e + 2] = 1

FRound(x) == IntPart(x) + (IF HalfOrMore(x) THEN 1 ELSE 0)

(***************************************************************************)
(* Cost and confidence.                                                    *)
(***************************************************************************)
\* the rate table in dollars per million tokens: gemini 0.25, default 0.25
costs == [gemini |-> Literal(25, 100)]

DefaultRate == Literal(25, 100)

Hundred == FromInt(100)

\* Math.ceil((tokens / 1000000) * costPerMillion * 100), in cents
calculateCost(tokens, provider) ==
  FCeil(FMul(FMul(FDivInt(FromInt(tokens), 1000000),
                  IF provider \in DOMAIN costs THEN costs[provider] ELSE DefaultRate),
             Hundred))

\* the multi-provider revision: openai 0.50, gemini 0.25, claude 0.30, default 0.50
costs_multi == [openai |-> Literal(5, 10), gemini |-> Literal(25, 100), claude |-> Literal(3, 10)]

DefaultRate_multi == Literal(5, 10)

calculateCost_multi(tokens, provider) ==
  FCeil(FMul(FMul(FDivInt(FromInt(tokens), 1000000),
                  IF provider \in DOMAIN costs_multi THEN costs_multi[provider]
                  ELSE DefaultRate_multi),
             Hundred))

\* an item's confidence is kept in hundredths; the number it is in the payload
Hundredths == [c \in 0..100 |-> Literal(c, 100)]

\* items.reduce((sum, item) => sum + item.confidence, 0)
RECURSIVE sumConfidence(_)
sumConfidence(items) ==
  IF Len(items) = 0 THEN FZero
  ELSE FAdd(sumConfidence(SubSeq(items, 1, Len(items) - 1)),
            Hundredths[items[Len(items)].confidence])

avgConfidence(data) == FDivInt(sumConfidence(data.items), Len(data.items))

\* data.totals.kcal is read of a payload that has items: a payload with items
\* and no totals makes calculateConfidenceScore throw a TypeError
confidenceThrows(data) == data.hasItems /\ Len(data.items) > 0 /\ ~data.hasTotals

One == FromInt(1)

HighCalorie == Literal(8, 10)

Balanced == Literal(11, 10)

Generic == Literal(9, 10)

hasVaryingConfidence(data) ==
  \E i, j \in 1..Len(data.items) : data.items[i].confidence # data.items[j].confidence

\* the three quality factors, applied in the order of the code
penalizeCalories(data, q) == IF data.totals.kcal > 2000 THEN FMul(q, HighCalorie) ELSE q

boostBalanced(data, q) ==
  IF data.totals.protein > 0 /\ data.totals.fat > 0 /\ data.totals.carbs > 0
  THEN FMul(q, Balanced) ELSE q

penalizeGeneric(data, avg, q) ==
  IF ~hasVaryingConfidence(data) /\ avg = HighCalorie THEN FMul(q, Generic) ELSE q

qualityMultiplier(data, avg) ==
  penalizeGeneric(data, avg, boostBalanced(data, penalizeCalories(data, One)))

\* Math.min(1.0, Math.round(x * 100) / 100) as hundredths
roundToHundredths(x) == IF FRound(FMul(x, Hundred)) >= 100 THEN 100 ELSE FRound(FMul(x, Hundred))

scoreOf(data, avg) == roundToHundredths(FMul(avg, qualityMultiplier(data, avg)))

\* in hundredths
calculateConfidenceScore(data) ==
  IF ~data.hasItems \/ Len(data.items) = 0 THEN 0
  ELSE scoreOf(data, avgConfidence(data))

\* the multi-provider revision: Math.round(avgConfidence * 100) / 100
calculateConfidenceScore_multi(data) ==
  IF ~data.hasItems \/ Len(data.items) = 0 THEN 0
  ELSE FRound(FMul(avgConfidence(data), Hundred))

(***************************************************************************)
(* The provider clients.  What the provider's HTTP endpoint does is the    *)
(* environment's choice: the credential is missing, the status is not OK,  *)
(* the body does not parse, or the body parses to some payload.            *)
(***************************************************************************)
ChickenItem ==
  [label |-> <<"c">>, qty |-> 150, unit |-> "g", confidence |-> 95,
   macros |-> [kcal |-> 165, protein |-> 310, fat |-> 36, carbs |-> 0]]

OatsItem ==
  [label |-> <<"o">>, qty |-> 50, unit |-> "g", confidence |-> 80,
   macros |-> [kcal |-> 195, protein |-> 85, fat |-> 35, carbs |-> 330]]

PayloadChicken ==
  [hasItems |-> TRUE, items |-> <<ChickenItem>>, hasTotals |-> TRUE, totals |-> ChickenItem.macros]

PayloadOats ==
  [hasItems |-> TRUE, items |-> <<OatsItem>>, hasTotals |-> TRUE, totals |-> OatsItem.macros]

\* a JSON object with items and without totals
PayloadNoTotals ==
  [hasItems |-> TRUE, items |-> <<OatsItem>>, hasTotals |-> FALSE, totals |-> ZeroMacros]

\* a JSON object whose totals are not the sums over its items
PayloadWrongTotals ==
  [hasItems |-> TRUE, items |-> <<OatsItem>>, hasTotals |-> TRUE,
   totals |-> [OatsItem.macros EXCEPT !.kcal = 200]]

Payloads == {PayloadChicken, PayloadOats, PayloadNoTotals, PayloadWrongTotals}

\* calculateConfidenceScore of the payloads a provider can return, each
\* computed once
ConfidenceScores ==
  [data \in {p \in Payloads : ~confidenceThrows(p)} |-> calculateConfidenceScore(data)]

ConfidenceScores_multi == [data \in Payloads |-> calculateConfidenceScore_multi(data)]

\* the token count an OpenAI or Claude response reports
ReportedTokens == 1200

ProviderOutcomes ==
  {[kind |-> k, payload |-> PayloadChicken] : k \in {"no_key", "http_error", "parse_error"}}
  \cup {[kind |-> "ok", payload |-> p] : p \in Payloads}

Thrown(message) == [ok |-> FALSE, data |-> PayloadChicken, tokens |-> 0, message |-> message]

Returned(data, tokens) == [ok |-> TRUE, data |-> data, tokens |-> tokens, message |-> ""]

callGemini(o) ==
  CASE o.kind = "no_key" -> Thrown("Gemini API key not configured")
    [] o.kind = "http_error" -> Thrown("Gemini API error")
    [] o.kind = "parse_error" -> Thrown("Failed to parse Gemini response")
    [] OTHER -> Returned(o.payload, 0)

callOpenAI(o) ==
  CASE o.kind = "no_key" -> Thrown("OpenAI API key not configured")
    [] o.kind = "http_error" -> Thrown("OpenAI API error")
    [] o.kind = "parse_error" -> Thrown("Failed to parse OpenAI response")
    [] OTHER -> Returned(o.payload, ReportedTokens)

callClaude(o) ==
  CASE o.kind = "no_key" -> Thrown("Claude API key not configured")
    [] o.kind = "http_error" -> Thrown("Claude API error")
    [] o.kind = "parse_error" -> Thrown("Failed to parse Claude response")
    [] OTHER -> Returned(o.payload, ReportedTokens)

\* the single-provider revision ignores the tag
callAIService(provider, o) == callGemini(o)

callAIService_multi(provider, o) ==
  CASE provider = "openai" -> callOpenAI(o)
    [] provider = "gemini" -> callGemini(o)
    [] provider = "claude" -> callClaude(o)
    [] OTHER -> Thrown("Unsupported AI provider")

(***************************************************************************)
(* State.                                                                  *)
(***************************************************************************)
VARIABLES
  revision,         \* which revision of the edge function is deployed
  now,              \* the clock, in days
  nutrition_cache,  \* the rows of table nutrition_cache
  nextId,           \* the serial of nutrition_cache.id
  api_usage,        \* the rows of table api_usage
  req,              \* the requests: inputs, position, locals, response, result
  ops,              \* per request, how often it has performed each operation
  calc,             \* the last call of a function on its own: arguments and result
  editor,           \* the NotesEditor: its text, its timers and the entries of the store
  daily_logs,       \* the item notecal_daily_logs of AsyncStorage: a log per date
  calls             \* the calls of addFoodEntry and deleteFoodEntry, each at one of its awaits

vars ==
  <<revision, now, nutrition_cache, nextId, api_usage, req, ops, calc, editor, daily_logs,
    calls>>

TTL_DAYS == 7

DefaultQuota == 1000

Reqs == 1..MaxReq

Revisions == {"gemini", "multi"}

\* no userId in the request (undefined, or the empty string)
NoUser == ""

UserIds == {NoUser, "u1"}

\* "" stands for a request without aiProvider
ProviderArgs == {"", "bogus"}

FoodTexts == {<<>>, <<" ">>, <<"a">>, <<"A", " ">>}

\* the foodText of a call or of a request body: missing, or a string
TextArgs ==
  {[given |-> FALSE, text |-> <<>>]} \cup {[given |-> TRUE, text |-> t] : t \in FoodTexts}

\* what view user_usage_summary may hold for a user: no row, or a row
SummaryRows ==
  {[found |-> FALSE, current_usage |-> 0, usage_quota |-> 0]}
  \cup {[found |-> TRUE, current_usage |-> u, usage_quota |-> 2] : u \in 1..3}

NoData == [hasItems |-> FALSE, items |-> <<>>, hasTotals |-> FALSE, totals |-> ZeroMacros]

NoResp == [status |-> 0, data |-> {}, error |-> ""]

NoResult == [kind |-> "", message |-> ""]

NoStats == [found |-> FALSE, current_usage |-> 0, usage_quota |-> 0]

IdleReq ==
  [pc |-> "idle", via |-> "", given |-> FALSE, foodText |-> <<>>, userId |-> NoUser,
   aiProvider |-> "", stats |-> NoStats, cached |-> {}, lookupTime |-> 0,
   aiResult |-> "", nutritionData |-> NoData, tokensUsed |-> 0, costCents |-> 0,
   logStatus |-> "", errorMessage |-> "", resp |-> NoResp, result |-> NoResult]

NoOps ==
  [quota |-> 0, lookup |-> 0, hit |-> 0, provider |-> 0, upsert |-> 0, log |-> 0,
   writeFail |-> 0]

\* the row an earlier request for "a" wrote at time 0
SeedRow(rev) ==
  [id |-> 1, food_query |-> <<"a">>, normalized_query |-> <<"a">>,
   nutrition_data |-> PayloadChicken, confidence_score |-> 95,
   ai_provider |-> IF rev = "multi" THEN "openai" ELSE "gemini", hit_count |-> 1,
   created_at |-> 0, expires_at |-> TTL_DAYS]

\* the editor as mounted over the entries of the store: nothing typed, no timer set;
\* changes, runs and added record the calls of handleTextChange, of
\* processDocumentChanges and of onAddEntry
mounted(entries) ==
  [clock |-> 0, documentText |-> <<>>, entries |-> entries, timers |-> {},
   changes |-> <<>>, runs |-> <<>>, added |-> <<>>]

\* how many calls of addFoodEntry and deleteFoodEntry are made
MaxCalls == 3

Dates == {"d1"}

ZeroNutrition ==
  [calories |-> 0, protein |-> 0, carbs |-> 0, fat |-> 0, fiber |-> 0, sugar |-> 0]

\* logs[date] of a date without a log
NoLog == [found |-> FALSE, entries |-> <<>>, totals |-> ZeroNutrition]

NoEntry == [id |-> "", nutrition |-> ZeroNutrition]

IdleCall ==
  [pc |-> "idle", kind |-> "", date |-> "", entry |-> NoEntry, entryId |-> "",
   dailyLog |-> NoLog, updatedLog |-> NoLog, existingLogs |-> [d \in Dates |-> NoLog],
   outcome |-> ""]

\* no function has been called on its own
NoCalc == [fn |-> "", arg |-> <<>>, provider |-> "", result |-> 0]

\* the cache is empty, or holds the row an earlier request wrote
InitOf(rev) ==
  /\ revision = rev
  /\ now = 0
  /\ \E seeded \in BOOLEAN :
       /\ nutrition_cache = IF seeded THEN {SeedRow(rev)} ELSE {}
       /\ nextId = IF seeded THEN 2 ELSE 1
  /\ api_usage = {}
  /\ req = [r \in Reqs |-> IdleReq]
  /\ ops = [r \in Reqs |-> NoOps]
  /\ calc = NoCalc
  /\ editor = mounted(<<>>)
  /\ daily_logs = [d \in Dates |-> NoLog]
  /\ calls = [c \in 1..MaxCalls |-> IdleCall]

\* the single-provider revision of the function is deployed
Init == InitOf("gemini")

(***************************************************************************)
(* The pieces of resolveNutrition and of the serve handler.                *)
(***************************************************************************)
\* the check without the trim: whitespace passes
isBlank_noTrim(arg) == ~arg.given \/ Len(arg.text) = 0

\* !foodText || foodText.trim().length === 0
isBlank(arg) == ~arg.given \/ Len(arg.text) = 0 \/ Len(trim(arg.text)) = 0

\* getUserUsageStats: the row of the view, or the defaults when there is none
getUserUsageStats(row) ==
  IF row.found THEN row
  ELSE [found |-> TRUE, current_usage |-> 0, usage_quota |-> DefaultQuota]

\* the comparison with > : a caller exactly at quota passes
quotaExceeded_strict(stats) == stats.current_usage > stats.usage_quota

\* the quota check switched off
quotaExceeded_off(stats) == stats.found /\ FALSE

\* checkUserQuota throws NutritionQuotaExceededError
quotaExceeded(stats) == stats.current_usage >= stats.usage_quota

\* the foodText of the body the handler receives: resolveNutrition sends it trimmed
bodyText(q) ==
  IF q.via = "client" THEN [given |-> TRUE, text |-> trim(q.foodText)]
  ELSE [given |-> q.given, text |-> q.foodText]

\* the key without the lower-casing
cacheKey_noLower(foodText) == trim(foodText)

\* const cacheKey = foodText.toLowerCase().trim()
cacheKey(foodText) == trim(toLowerCase(foodText))

\* the select without the filter on expires_at
selectCache_noExpiry(rows, key, t) == {row \in rows : row.food_query = key /\ t >= 0}

\* the select with .gt in place of .gte
selectCache_strict(rows, key, t) == {row \in rows : row.food_query = key /\ row.expires_at > t}

\* .eq('food_query', cacheKey).gte('expires_at', new Date().toISOString())
selectCache(rows, key, t) == {row \in rows : row.food_query = key /\ row.expires_at >= t}

\* .update({ hit_count: cachedData.hit_count + 1 }).eq('id', cachedData.id)
updateHitCount(rows, cachedData) ==
  {IF row.id = cachedData.id THEN [row EXCEPT !.hit_count = cachedData.hit_count + 1] ELSE row :
     row \in rows}

\* the table's default of created_at, a column the payload of the upsert does
\* not name: the time of the insert
createdAtDefault(t) == t

\* the row of the upsert as the table would insert it: the payload names no id
\* and no created_at, the table fills them in
cacheRow(id, key, data, score, provider, createdAt, expiresAt) ==
  [id |-> id, food_query |-> key, normalized_query |-> key, nutrition_data |-> data,
   confidence_score |-> score, ai_provider |-> provider, hit_count |-> 1,
   created_at |-> createdAt, expires_at |-> expiresAt]

\* an upsert with ignoreDuplicates: a row that is there is left as it is
upsertCache_ignoreDuplicates(rows, fresh) ==
  IF \E row \in rows : row.food_query = fresh.food_query THEN rows ELSE rows \cup {fresh}

\* a plain insert: a second row under the same food_query
upsertCache_insert(rows, fresh) == rows \cup {fresh}

\* the columns of the row with that food_query that the payload does not name
keptColumns(fresh, old) == [fresh EXCEPT !.id = old.id, !.created_at = old.created_at]

\* .upsert(row, { onConflict: 'food_query' }): the columns of the payload are
\* written over the row with that food_query, which keeps its id and its
\* created_at, or a new row is inserted
upsertCache(rows, fresh) ==
  LET old == {row \in rows : row.food_query = fresh.food_query}
  IN  IF old = {} THEN rows \cup {fresh}
      ELSE (rows \ old) \cup {keptColumns(fresh, CHOOSE row \in old : TRUE)}

\* the insert with the status fixed to 'success'
logApiUsage_fixedStatus(id, userId, provider, tokens, costCents, status, errorMessage) ==
  [id |-> id, user_id |-> userId, ai_provider |-> provider, tokens_used |-> tokens,
   cost_cents |-> costCents, request_type |-> "nutrition",
   status |-> IF status = "" THEN status ELSE "success", error_message |-> errorMessage]

\* the row logApiUsage inserts; its id names the request that inserted it
logApiUsage(id, userId, provider, tokens, costCents, status, errorMessage) ==
  [id |-> id, user_id |-> userId, ai_provider |-> provider, tokens_used |-> tokens,
   cost_cents |-> costCents, request_type |-> "nutrition", status |-> status,
   error_message |-> errorMessage]

\* the keys of the JSON body of a response
bodyFields(resp) ==
  (IF resp.data # {} THEN {"data"} ELSE {}) \cup (IF resp.error # "" THEN {"error"} ELSE {})

\* resolveNutrition on the answer of supabase.functions.invoke
clientResult(resp) ==
  IF resp.status # 200
  THEN [kind |-> "NutritionApiError", message |-> "Edge Function returned a non-2xx status code"]
  ELSE IF bodyFields(resp) = {}
  THEN [kind |-> "NutritionApiError", message |-> "No data returned from nutrition service"]
  ELSE IF "items" \notin bodyFields(resp)
  THEN [kind |-> "NutritionApiError", message |-> "Invalid response format: missing items array"]
  ELSE IF "totals" \notin bodyFields(resp)
  THEN [kind |-> "NutritionApiError", message |-> "Invalid response format: missing totals object"]
  ELSE [kind |-> "returned", message |-> ""]

\* the handler answers; a client call then maps the answer to its result
Finish(q, resp) ==
  [q EXCEPT !.pc = "done", !.resp = resp,
            !.result = IF q.via = "client" THEN clientResult(resp) ELSE q.result]

Ok200(data) == [status |-> 200, data |-> {data}, error |-> ""]

fallbackOf(rev, foodText) ==
  IF rev = "multi" THEN generateFallbackResponse_multi(foodText)
  ELSE generateFallbackResponse(foodText)

\* the fallback response without its error annotation
Fallback200_noError(rev, foodText) ==
  [status |-> 200, data |-> {fallbackOf(rev, foodText)}, error |-> ""]

Fallback200(rev, foodText) ==
  [status |-> 200, data |-> {fallbackOf(rev, foodText)},
   error |-> "AI service unavailable, showing estimated values"]

\* the handler up to its first await: the body is validated
EnterHandler(q) ==
  IF isBlank(bodyText(q))
  THEN Finish(q, [status |-> 400, data |-> {}, error |-> "Food text is required"])
  ELSE [q EXCEPT !.pc = "lookup"]

(***************************************************************************)
(* Actions: one per await of the client service and of the handler.        *)
(***************************************************************************)
\* the request slots are taken in order
Free(r) == req[r].pc = "idle" /\ (IF r = 1 THEN TRUE ELSE req[r - 1].pc # "idle")

\* resolveNutrition(foodText, { userId, aiProvider }) up to its first await
ClientCall(r, arg, userId, provider) ==
  /\ Free(r)
  /\ LET q == [IdleReq EXCEPT !.via = "client", !.given = arg.given, !.foodText = arg.text,
                              !.userId = userId,
                              !.aiProvider = IF provider = "" THEN "openai" ELSE provider]
     IN  req' = [req EXCEPT ![r] =
                   IF isBlank(arg)
                   THEN [q EXCEPT !.pc = "done",
                                  !.result = [kind |-> "NutritionApiError",
                                              message |-> "Food text is required"]]
                   ELSE IF userId # NoUser THEN [q EXCEPT !.pc = "quota"]
                   ELSE EnterHandler(q)]
  /\ UNCHANGED <<daily_logs, calls, editor, calc, revision, now, nutrition_cache, nextId, api_usage, ops>>

\* checkUserQuota: the view is read, then the handler is invoked or the call fails
CheckQuota(r, row) ==
  /\ req[r].pc = "quota"
  /\ LET stats == getUserUsageStats(row)
         q == [req[r] EXCEPT !.stats = stats]
     IN  req' = [req EXCEPT ![r] =
                   IF quotaExceeded(stats)
                   THEN [q EXCEPT !.pc = "done",
                                  !.result = [kind |-> "NutritionQuotaExceededError",
                                              message |-> "Monthly quota exceeded"]]
                   ELSE EnterHandler(q)]
  /\ ops' = [ops EXCEPT ![r].quota = @ + 1]
  /\ UNCHANGED <<daily_logs, calls, editor, calc, revision, now, nutrition_cache, nextId, api_usage>>

\* a request sent to the function directly
HttpRequest(r, arg, userId, provider) ==
  /\ Free(r)
  /\ LET default == IF revision = "multi" THEN "openai" ELSE "gemini"
         q == [IdleReq EXCEPT !.via = "http", !.given = arg.given, !.foodText = arg.text,
                              !.userId = userId,
                              !.aiProvider = IF provider = "" THEN default ELSE provider]
     IN  req' = [req EXCEPT ![r] = EnterHandler(q)]
  /\ UNCHANGED <<daily_logs, calls, editor, calc, revision, now, nutrition_cache, nextId, api_usage, ops>>

\* 1. Check cache first
CacheLookup(r) ==
  /\ req[r].pc = "lookup"
  /\ LET q == req[r]
         found == selectCache(nutrition_cache, cacheKey(bodyText(q).text), now)
         hit == Cardinality(found) = 1
     IN  req' = [req EXCEPT ![r] =
                   [q EXCEPT !.pc = IF hit THEN "hit" ELSE "provider",
                             !.cached = IF hit THEN found ELSE {},
                             !.lookupTime = now]]
  /\ ops' = [ops EXCEPT ![r].lookup = @ + 1]
  /\ UNCHANGED <<daily_logs, calls, editor, calc, revision, now, nutrition_cache, nextId, api_usage>>

\* the hit branch without its logApiUsage call
RecordHit_noLog(r) ==
  /\ req[r].pc = "hit"
  /\ LET cachedData == CHOOSE row \in req[r].cached : TRUE
         q == [req[r] EXCEPT !.nutritionData = cachedData.nutrition_data,
                             !.logStatus = "cache_hit"]
     IN  /\ nutrition_cache' = updateHitCount(nutrition_cache, cachedData)
         /\ req' = [req EXCEPT ![r] = Finish(q, Ok200(q.nutritionData))]
  /\ ops' = [ops EXCEPT ![r].hit = @ + 1]
  /\ UNCHANGED <<daily_logs, calls, editor, calc, revision, now, nextId, api_usage>>

\* Cache hit - update hit count
RecordHit(r) ==
  /\ req[r].pc = "hit"
  /\ LET cachedData == CHOOSE row \in req[r].cached : TRUE
         q == [req[r] EXCEPT !.nutritionData = cachedData.nutrition_data,
                             !.logStatus = "cache_hit"]
     IN  /\ nutrition_cache' = updateHitCount(nutrition_cache, cachedData)
         /\ req' = [req EXCEPT ![r] =
                      IF q.userId # NoUser THEN [q EXCEPT !.pc = "log"]
                      ELSE Finish(q, Ok200(q.nutritionData))]
  /\ ops' = [ops EXCEPT ![r].hit = @ + 1]
  /\ UNCHANGED <<daily_logs, calls, editor, calc, revision, now, nextId, api_usage>>

\* the call with a retry: after a failure the request calls the provider again
ProviderCall_retry(r, o) ==
  /\ req[r].pc = "provider"
  /\ ops[r].provider < 3
  /\ LET q == req[r]
         res == IF revision = "multi" THEN callAIService_multi(q.aiProvider, o)
                ELSE callGemini(o)
     IN  req' = [req EXCEPT ![r] =
                   IF res.ok
                   THEN [q EXCEPT !.pc = "upsert", !.logStatus = "success",
                                  !.aiResult = "returned", !.nutritionData = res.data]
                   ELSE [q EXCEPT !.aiResult = "threw", !.logStatus = "ai_error",
                                  !.errorMessage = res.message]]
  /\ ops' = [ops EXCEPT ![r].provider = @ + 1]
  /\ UNCHANGED <<daily_logs, calls, editor, calc, revision, now, nutrition_cache, nextId, api_usage>>

\* 2. Cache miss - call AI service
ProviderCall(r, o) ==
  /\ req[r].pc = "provider"
  /\ LET q == req[r]
         res == IF revision = "multi" THEN callAIService_multi(q.aiProvider, o)
                ELSE callAIService(q.aiProvider, o)
         cost == IF revision = "multi" THEN calculateCost_multi(res.tokens, q.aiProvider)
                 ELSE calculateCost(res.tokens, q.aiProvider)
         got == [q EXCEPT !.aiResult = "returned", !.nutritionData = res.data,
                          !.tokensUsed = res.tokens, !.costCents = cost]
         typeError == revision # "multi" /\ confidenceThrows(res.data)
         failed == [(IF res.ok THEN got ELSE [q EXCEPT !.aiResult = "threw"]) EXCEPT
                      !.logStatus = "ai_error",
                      !.errorMessage = IF res.ok THEN "Cannot read properties of undefined"
                                       ELSE res.message]
     IN  req' = [req EXCEPT ![r] =
                   IF res.ok /\ ~typeError
                   THEN [got EXCEPT !.pc = "upsert", !.logStatus = "success"]
                   ELSE IF q.userId # NoUser THEN [failed EXCEPT !.pc = "log"]
                   ELSE Finish(failed, Fallback200(revision, bodyText(q).text))]
  /\ ops' = [ops EXCEPT ![r].provider = @ + 1]
  /\ UNCHANGED <<daily_logs, calls, editor, calc, revision, now, nutrition_cache, nextId, api_usage>>

\* 3. Cache the result, to expire 7 days from now
CacheUpsert(r) ==
  /\ req[r].pc = "upsert"
  /\ LET q == req[r]
         score == IF revision = "multi" THEN ConfidenceScores_multi[q.nutritionData]
                  ELSE ConfidenceScores[q.nutritionData]
         fresh == cacheRow(nextId, cacheKey(bodyText(q).text), q.nutritionData, score,
                           q.aiProvider, createdAtDefault(now), now + TTL_DAYS)
     IN  /\ nutrition_cache' = upsertCache(nutrition_cache, fresh)
         /\ nextId' = IF nutrition_cache' = nutrition_cache \cup {fresh}
                      THEN nextId + 1 ELSE nextId
         /\ req' = [req EXCEPT ![r] =
                      IF q.userId # NoUser THEN [q EXCEPT !.pc = "log"]
                      ELSE Finish(q, Ok200(q.nutritionData))]
  /\ ops' = [ops EXCEPT ![r].upsert = @ + 1]
  /\ UNCHANGED <<daily_logs, calls, editor, calc, revision, now, api_usage>>

\* the catch block also caching its estimate
LogUsage_cacheFallback(r) ==
  /\ req[r].pc = "log"
  /\ LET q == req[r]
         estimate == cacheRow(nextId, cacheKey(bodyText(q).text),
                              fallbackOf(revision, bodyText(q).text), FallbackConfidence,
                              q.aiProvider, createdAtDefault(now), now + TTL_DAYS)
     IN  /\ nutrition_cache' = IF q.logStatus = "ai_error"
                               THEN upsertCache(nutrition_cache, estimate)
                               ELSE nutrition_cache
         /\ req' = [req EXCEPT ![r] =
                      IF q.logStatus = "ai_error"
                      THEN Finish(q, Fallback200(revision, bodyText(q).text))
                      ELSE Finish(q, Ok200(q.nutritionData))]
  /\ nextId' = nextId + 1
  /\ ops' = [ops EXCEPT ![r].log = @ + 1]
  /\ UNCHANGED <<daily_logs, calls, editor, calc, revision, now, api_usage>>

\* logApiUsage at its three call sites, then the response
LogUsage(r) ==
  /\ req[r].pc = "log"
  /\ LET q == req[r]
         id == <<r, ops[r].log + 1>>
         row == CASE q.logStatus = "cache_hit" ->
                       logApiUsage(id, q.userId, q.aiProvider, 0, 0, "cache_hit", "")
                  [] q.logStatus = "success" ->
                       logApiUsage(id, q.userId, q.aiProvider, q.tokensUsed, q.costCents,
                                   "success", "")
                  [] OTHER ->
                       logApiUsage(id, q.userId, q.aiProvider, 0, 0, "ai_error",
                                   q.errorMessage)
     IN  /\ api_usage' = api_usage \cup {row}
         /\ req' = [req EXCEPT ![r] =
                      IF q.logStatus = "ai_error"
                      THEN Finish(q, Fallback200(revision, bodyText(q).text))
                      ELSE Finish(q, Ok200(q.nutritionData))]
  /\ ops' = [ops EXCEPT ![r].log = @ + 1]
  /\ UNCHANGED <<daily_logs, calls, editor, calc, revision, now, nutrition_cache, nextId>>

\* clearCacheEntry(foodQuery)
ClearCache(foodQuery) ==
  /\ nutrition_cache' =
       {row \in nutrition_cache : row.food_query # trim(toLowerCase(foodQuery))}
  /\ nutrition_cache' # nutrition_cache
  /\ UNCHANGED <<daily_logs, calls, editor, calc, revision, now, nextId, api_usage, req, ops>>

\* time passes
Tick(d) ==
  /\ now + d <= MaxTime
  /\ now' = now + d
  /\ UNCHANGED <<daily_logs, calls, editor, calc, revision, nutrition_cache, nextId, api_usage, req, ops>>

\* the view cannot be read: getUserUsageStats throws, and so does resolveNutrition
CheckQuotaFails(r) ==
  /\ req[r].pc = "quota"
  /\ req' = [req EXCEPT ![r] =
               [@ EXCEPT !.pc = "done",
                         !.result = [kind |-> "NutritionApiError",
                                     message |-> "Failed to get usage statistics"]]]
  /\ ops' = [ops EXCEPT ![r].quota = @ + 1]
  /\ UNCHANGED <<daily_logs, calls, editor, calc, revision, now, nutrition_cache, nextId, api_usage>>

\* the cache cannot be read: cacheError is set, the handler goes on as on a miss
CacheLookupFails(r) ==
  /\ req[r].pc = "lookup"
  /\ req' = [req EXCEPT ![r] =
               [@ EXCEPT !.pc = "provider", !.lookupTime = now]]
  /\ ops' = [ops EXCEPT ![r].lookup = @ + 1]
  /\ UNCHANGED <<daily_logs, calls, editor, calc, revision, now, nutrition_cache, nextId, api_usage>>

\* the update of hit_count fails: its result is not looked at
RecordHitFails(r) ==
  /\ req[r].pc = "hit"
  /\ LET cachedData == CHOOSE row \in req[r].cached : TRUE
         q == [req[r] EXCEPT !.nutritionData = cachedData.nutrition_data,
                             !.logStatus = "cache_hit"]
     IN  req' = [req EXCEPT ![r] =
                   IF q.userId # NoUser THEN [q EXCEPT !.pc = "log"]
                   ELSE Finish(q, Ok200(q.nutritionData))]
  /\ ops' = [ops EXCEPT ![r].writeFail = @ + 1]
  /\ UNCHANGED <<daily_logs, calls, editor, calc, revision, now, nutrition_cache, nextId, api_usage>>

\* the upsert failing with an exception, which the catch around the provider call takes
CacheUpsertFails_thrown(r) ==
  /\ req[r].pc = "upsert"
  /\ LET q == [req[r] EXCEPT !.logStatus = "ai_error", !.errorMessage = "upsert failed"]
     IN  req' = [req EXCEPT ![r] =
                   IF q.userId # NoUser THEN [q EXCEPT !.pc = "log"]
                   ELSE Finish(q, Fallback200(revision, bodyText(q).text))]
  /\ ops' = [ops EXCEPT ![r].writeFail = @ + 1]
  /\ UNCHANGED <<daily_logs, calls, editor, calc, revision, now, nutrition_cache, nextId, api_usage>>

\* the upsert fails: its result is not looked at
CacheUpsertFails(r) ==
  /\ req[r].pc = "upsert"
  /\ LET q == req[r]
     IN  req' = [req EXCEPT ![r] =
                   IF q.userId # NoUser THEN [q EXCEPT !.pc = "log"]
                   ELSE Finish(q, Ok200(q.nutritionData))]
  /\ ops' = [ops EXCEPT ![r].writeFail = @ + 1]
  /\ UNCHANGED <<daily_logs, calls, editor, calc, revision, now, nutrition_cache, nextId, api_usage>>

\* the insert into api_usage fails: logApiUsage does not look at its result
LogUsageFails(r) ==
  /\ req[r].pc = "log"
  /\ LET q == req[r]
     IN  req' = [req EXCEPT ![r] =
                   IF q.logStatus = "ai_error"
                   THEN Finish(q, Fallback200(revision, bodyText(q).text))
                   ELSE Finish(q, Ok200(q.nutritionData))]
  /\ ops' = [ops EXCEPT ![r].writeFail = @ + 1]
  /\ UNCHANGED <<daily_logs, calls, editor, calc, revision, now, nutrition_cache, nextId, api_usage>>

\* the steps of the handler after a request has entered it
HandlerStep(r) ==
  \/ CacheLookup(r)
  \/ RecordHit(r)
  \/ \E o \in ProviderOutcomes : ProviderCall(r, o)
  \/ CacheUpsert(r)
  \/ LogUsage(r)

Environment ==
  \/ \E t \in FoodTexts : ClearCache(t)
  \/ \E d \in {TTL_DAYS, TTL_DAYS + 1} : Tick(d)

\* requests sent to the function directly, concurrently, for the default provider
Next ==
  \/ \E r \in Reqs, arg \in TextArgs, u \in UserIds : HttpRequest(r, arg, u, "")
  \/ \E r \in Reqs : HandlerStep(r)
  \/ Environment

Spec == Init /\ [][Next]_vars

\* one request, through the client service or direct, over a store whose reads may fail
NextClient ==
  \/ \E arg \in TextArgs, u \in UserIds, p \in ProviderArgs : ClientCall(1, arg, u, p)
  \/ \E arg \in TextArgs, u \in UserIds, p \in ProviderArgs : HttpRequest(1, arg, u, p)
  \/ \E row \in SummaryRows : CheckQuota(1, row)
  \/ CheckQuotaFails(1)
  \/ CacheLookupFails(1)
  \/ HandlerStep(1)
  \/ Environment

InitClient == \E rev \in Revisions : InitOf(rev)

SpecClient == InitClient /\ [][NextClient]_vars

\* one request sent to the function directly, over a store whose writes may fail
NextStorage ==
  \/ \E arg \in TextArgs, u \in UserIds, p \in ProviderArgs : HttpRequest(1, arg, u, p)
  \/ HandlerStep(1)
  \/ RecordHitFails(1)
  \/ CacheUpsertFails(1)
  \/ LogUsageFails(1)
  \/ Environment

SpecStorage == InitClient /\ [][NextStorage]_vars

(***************************************************************************)
(* The NotesEditor: handleTextChange sets a timer for every change of the  *)
(* text, and the timer runs processDocumentChanges.  The clock counts      *)
(* milliseconds.                                                           *)
(***************************************************************************)
DebounceMs == 1000

\* how many times the text changes
MaxChanges == 3

MaxClock == 3 * DebounceMs

\* "- a", "- a" with a second line that is no food line, and "b"
EditorTexts == {<<"-", " ", "a">>, <<"-", " ", "a", "\n", "b">>, <<"b">>}

\* line.startsWith('- ')
startsWithDash(line) == Len(line) >= 2 /\ line[1] = "-" /\ line[2] = " "

\* text.split('\n').map(line => line.trim()).filter(line => line.startsWith('- '))
parseDocumentForFoodEntries(text) ==
  SelectSeq([n \in 1..Len(split(text)) |-> trim(split(text)[n])], startsWithDash)

\* the store's addEntry, once for every line: an entry with the line as its rawText
\* and an id of its own, the count of the entries added so far
addEntries(entries, lines, count) ==
  entries \o [n \in 1..Len(lines) |-> [id |-> count + n, rawText |-> lines[n]]]

\* the lines of the document that no entry of the closure holds
newLines(foodLines, entries) ==
  SelectSeq(foodLines, LAMBDA line : \A n \in 1..Len(entries) : entries[n].rawText # line)

\* the ids of the entries of the closure whose line is not in the document
removedEntries(foodLines, entries) ==
  {entries[n].id : n \in {n \in 1..Len(entries) :
                            \A m \in 1..Len(foodLines) : foodLines[m] # entries[n].rawText}}

\* processDocumentChanges(newText) over the entries its closure holds: the
\* entries of the store after onDeleteEntry for every removed entry and
\* onAddEntry for every new line
processDocumentChanges(newText, closure, store, count) ==
  addEntries(SelectSeq(store, LAMBDA entry :
                         entry.id \notin removedEntries(parseDocumentForFoodEntries(newText),
                                                        closure)),
             newLines(parseDocumentForFoodEntries(newText), closure), count)

\* the timer handleTextChange sets; it holds the processDocumentChanges of the render
\* in which the text changed, and with it the entries of that render
timerOf(e, newText) ==
  [id |-> Len(e.changes) + 1, due |-> e.clock + DebounceMs, text |-> newText,
   entries |-> e.entries]

\* setTimeout(...); the function handleTextChange returns, which would clear the
\* timer, is dropped by onChangeText
timersAfter(e, newText) == e.timers \cup {timerOf(e, newText)}

\* onChangeText={handleTextChange}
HandleTextChange(newText) ==
  /\ Len(editor.changes) < MaxChanges
  /\ newText # editor.documentText
  /\ editor' = [editor EXCEPT !.documentText = newText,
                              !.timers = timersAfter(editor, newText),
                              !.changes = Append(@, [at |-> editor.clock, text |-> newText])]
  /\ UNCHANGED <<daily_logs, calls, revision, now, nutrition_cache, nextId, api_usage, req, ops, calc>>

\* a timer is due and runs processDocumentChanges
Timeout(t) ==
  /\ t \in editor.timers
  /\ t.due <= editor.clock
  /\ \A u \in editor.timers : t.id <= u.id
  /\ editor' = [editor EXCEPT
                  !.timers = @ \ {t},
                  !.entries = processDocumentChanges(t.text, t.entries, @, Len(editor.added)),
                  !.runs = Append(@, t.text),
                  !.added = @ \o newLines(parseDocumentForFoodEntries(t.text), t.entries)]
  /\ UNCHANGED <<daily_logs, calls, revision, now, nutrition_cache, nextId, api_usage, req, ops, calc>>

\* time passes; a timer that is due runs first
Wait(ms) ==
  /\ editor.clock + ms <= MaxClock
  /\ \A t \in editor.timers : t.due > editor.clock
  /\ editor' = [editor EXCEPT !.clock = @ + ms]
  /\ UNCHANGED <<daily_logs, calls, revision, now, nutrition_cache, nextId, api_usage, req, ops, calc>>

NextEditor ==
  \/ \E newText \in EditorTexts : HandleTextChange(newText)
  \/ \E t \in editor.timers : Timeout(t)
  \/ \E ms \in {DebounceMs \div 2, DebounceMs} : Wait(ms)

SpecEditor == Init /\ [][NextEditor]_vars

(***************************************************************************)
(* The daily logs in AsyncStorage: addFoodEntry and deleteFoodEntry read   *)
(* the log of a date, build the updated log and save it; saveDailyLog      *)
(* reads all logs and writes them back with the log of the date replaced.  *)
(***************************************************************************)
\* the entries the calls add; the fiber and the sugar of the second are not given
FoodEntries ==
  {[id |-> "e1", nutrition |-> [calories |-> 100, protein |-> 10, carbs |-> 20, fat |-> 5,
                                fiber |-> 2, sugar |-> 1]],
   [id |-> "e2", nutrition |-> [calories |-> 50, protein |-> 1, carbs |-> 12, fat |-> 0,
                                fiber |-> 0, sugar |-> 0]]}

\* updatedLog.entries.reduce(...) from zero totals
RECURSIVE sumNutrition(_)
sumNutrition(entries) ==
  IF Len(entries) = 0 THEN ZeroNutrition
  ELSE LET totals == sumNutrition(SubSeq(entries, 1, Len(entries) - 1))
           n == entries[Len(entries)].nutrition
       IN  [calories |-> totals.calories + n.calories, protein |-> totals.protein + n.protein,
            carbs |-> totals.carbs + n.carbs, fat |-> totals.fat + n.fat,
            fiber |-> totals.fiber + n.fiber, sugar |-> totals.sugar + n.sugar]

\* the log with its totals recalculated
withEntries(entries) == [found |-> TRUE, entries |-> entries, totals |-> sumNutrition(entries)]

\* the updated log of addFoodEntry and of deleteFoodEntry, from the log they read
updatedLogOf(call, dailyLog) ==
  IF call.kind = "add" THEN withEntries(Append(dailyLog.entries, call.entry))
  ELSE withEntries(SelectSeq(dailyLog.entries, LAMBDA entry : entry.id # call.entryId))

\* the call slots are taken in order
FreeCall(c) == calls[c].pc = "idle" /\ (IF c = 1 THEN TRUE ELSE calls[c - 1].pc # "idle")

\* addFoodEntry(date, entry) up to its first await; generateId gives every entry its own id
AddFoodEntry(c, date, entry) ==
  /\ FreeCall(c)
  /\ \A b \in 1..MaxCalls : calls[b].entry.id # entry.id
  /\ calls' = [calls EXCEPT ![c] = [IdleCall EXCEPT !.pc = "getDailyLog", !.kind = "add",
                                                    !.date = date, !.entry = entry]]
  /\ UNCHANGED <<daily_logs, revision, now, nutrition_cache, nextId, api_usage, req, ops, calc,
                 editor>>

\* deleteFoodEntry(date, entryId) up to its first await
DeleteFoodEntry(c, date, entryId) ==
  /\ FreeCall(c)
  /\ calls' = [calls EXCEPT ![c] = [IdleCall EXCEPT !.pc = "getDailyLog", !.kind = "delete",
                                                    !.date = date, !.entryId = entryId]]
  /\ UNCHANGED <<daily_logs, revision, now, nutrition_cache, nextId, api_usage, req, ops, calc,
                 editor>>

\* await getDailyLog(date): the item is read; deleteFoodEntry throws when the date
\* has no log, else the updated log is built and saveDailyLog is entered
GetDailyLog(c) ==
  /\ calls[c].pc = "getDailyLog"
  /\ LET call == [calls[c] EXCEPT !.dailyLog = daily_logs[calls[c].date]]
     IN  calls' = [calls EXCEPT ![c] =
                     IF call.kind = "delete" /\ ~call.dailyLog.found
                     THEN [call EXCEPT !.pc = "done", !.outcome = "Daily log not found"]
                     ELSE [call EXCEPT !.pc = "getAllDailyLogs",
                                       !.updatedLog = updatedLogOf(call, call.dailyLog)]]
  /\ UNCHANGED <<daily_logs, revision, now, nutrition_cache, nextId, api_usage, req, ops, calc,
                 editor>>

\* saveDailyLog: const existingLogs = await getAllDailyLogs()
GetAllDailyLogs(c) ==
  /\ calls[c].pc = "getAllDailyLogs"
  /\ calls' = [calls EXCEPT ![c] = [@ EXCEPT !.pc = "setItem", !.existingLogs = daily_logs]]
  /\ UNCHANGED <<daily_logs, revision, now, nutrition_cache, nextId, api_usage, req, ops, calc,
                 editor>>

\* saveDailyLog: await AsyncStorage.setItem(..., { ...existingLogs, [date]: dailyLog }),
\* and the call returns the updated log
SetItem(c) ==
  /\ calls[c].pc = "setItem"
  /\ daily_logs' = [calls[c].existingLogs EXCEPT ![calls[c].date] = calls[c].updatedLog]
  /\ calls' = [calls EXCEPT ![c] = [@ EXCEPT !.pc = "done", !.outcome = "returned"]]
  /\ UNCHANGED <<revision, now, nutrition_cache, nextId, api_usage, req, ops, calc, editor>>

NextDailyLog ==
  \/ \E c \in 1..MaxCalls, date \in Dates, entry \in FoodEntries : AddFoodEntry(c, date, entry)
  \/ \E c \in 1..MaxCalls, date \in Dates, entry \in FoodEntries :
       DeleteFoodEntry(c, date, entry.id)
  \/ \E c \in 1..MaxCalls : GetDailyLog(c)
  \/ \E c \in 1..MaxCalls : GetAllDailyLogs(c)
  \/ \E c \in 1..MaxCalls : SetItem(c)

SpecDailyLog == Init /\ [][NextDailyLog]_vars

(***************************************************************************)
(* Properties of the requests.                                             *)
(***************************************************************************)
Started(r) == req[r].pc # "idle"

Done(r) == req[r].pc = "done"

\* the usage records request r has inserted
RecordsOf(r) == {row \in api_usage : row.id[1] = r}

\* the foodText of request r is missing, empty or whitespace only
BlankText(r) ==
  ~req[r].given \/ \A i \in 1..Len(req[r].foodText) : IsSpace(req[r].foodText[i])

\* the normalized form of the foodText of request r
NormKey(r) == toLowerCase(trim(req[r].foodText))

\* the quota check of request r read usage at or over the quota
AtQuota(r) == req[r].stats.found /\ req[r].stats.current_usage >= req[r].stats.usage_quota

\* request r takes the step that reads the cache
LookupStep(r) == req[r].pc = "lookup" /\ req'[r].pc # "lookup"

\* request r takes the step that writes the cache
UpsertStep(r) == req[r].pc = "upsert" /\ req'[r].pc # "upsert"

\* the rows of the cache under the normalized foodText of request r
MatchingRows(r) == {row \in nutrition_cache : row.food_query = NormKey(r)}

\* the hit-count updates all requests have made
RECURSIVE hitsOf(_)
hitsOf(n) == IF n = 0 THEN 0 ELSE ops[n].hit + hitsOf(n - 1)

\* C1: a request whose foodText is missing, empty or whitespace only is rejected with
\* a validation error (status 400 by the handler, NutritionApiError by resolveNutrition)
\* and performs no quota check, cache lookup, cache write, provider call or usage-log write.
C1_BlankRejected ==
  \A r \in Reqs : Started(r) /\ BlankText(r) =>
    /\ Done(r)
    /\ ops[r] = NoOps
    /\ RecordsOf(r) = {}
    /\ IF req[r].via = "http"
       THEN req[r].resp.status = 400 /\ req[r].resp.data = {}
       ELSE req[r].result.kind = "NutritionApiError" /\ req[r].resp = NoResp

\* a whitespace-only foodText sent to the handler has been answered with status 400
C1_Witness ==
  \E r \in Reqs : /\ Done(r) /\ req[r].via = "http"
                  /\ req[r].given /\ req[r].foodText = <<" ">>
                  /\ req[r].resp.status = 400

\* C2: when the quota check of a request with a caller identity reads a current usage
\* at or above the usage quota, the request fails with NutritionQuotaExceededError, and
\* neither a cache lookup nor a provider call is made for it.
C2_QuotaRejected ==
  \A r \in Reqs : AtQuota(r) =>
    /\ Done(r)
    /\ req[r].result.kind = "NutritionQuotaExceededError"
    /\ req[r].resp = NoResp
    /\ ops[r].lookup = 0 /\ ops[r].provider = 0

\* a caller exactly at quota has been rejected
C2_Witness ==
  \E r \in Reqs : /\ Done(r) /\ req[r].stats.found
                  /\ req[r].stats.current_usage = req[r].stats.usage_quota
                  /\ req[r].result.kind = "NutritionQuotaExceededError"

C4_HitServed ==
  \A r \in Reqs : \A row \in req[r].cached :
    /\ ops[r].provider = 0 /\ ops[r].upsert = 0
    /\ Done(r) =>
         /\ req[r].resp = [status |-> 200, data |-> {row.nutrition_data}, error |-> ""]
         /\ IF req[r].userId = NoUser THEN RecordsOf(r) = {}
            ELSE \E u \in api_usage : /\ RecordsOf(r) = {u}
                                      /\ u.user_id = req[r].userId
                                      /\ u.status = "cache_hit"
                                      /\ u.tokens_used = 0 /\ u.cost_cents = 0

\* a request with a userId has been served from the cache and has logged it
C4_Witness ==
  \E r \in Reqs : /\ Done(r) /\ req[r].cached # {} /\ req[r].userId # NoUser
                  /\ req[r].resp.status = 200 /\ RecordsOf(r) # {}

\* C5 as stated: as long as no upsert has happened, the hit_count of the row is higher
\* than the 1 it started with by exactly the number of hit updates made on it, in any
\* interleaving of the requests, and its nutrition_data is unchanged.
C5_HitCountExact ==
  (\A r \in Reqs : ops[r].upsert = 0) =>
    \A row \in nutrition_cache : /\ row.hit_count = 1 + hitsOf(MaxReq)
                                 /\ row.nutrition_data = PayloadChicken

\* C6: a row is served only if its expires_at is at or after the time of the lookup; a
\* lookup that finds the matching row expired sends the request down the miss path and
\* leaves the row in the table, and the passing of time removes no row.
C6_ExpiredNeverServed ==
  /\ [](\A r \in Reqs : \A row \in req[r].cached : row.expires_at >= req[r].lookupTime)
  /\ [][/\ \A r \in Reqs : LookupStep(r) =>
             /\ \A row \in req'[r].cached :
                  row \in MatchingRows(r) /\ row.expires_at >= now
             /\ (MatchingRows(r) # {} /\ \A row \in MatchingRows(r) : row.expires_at < now)
                  => /\ req'[r].pc = "provider" /\ req'[r].cached = {}
                     /\ nutrition_cache' = nutrition_cache
        /\ now' # now => nutrition_cache' = nutrition_cache]_vars

\* a lookup has found the matching row expired, the request is on the miss path and
\* the row is still in the table
C6_Witness ==
  \E r \in Reqs : /\ req[r].pc = "provider" /\ ops[r].lookup = 1
                  /\ \E row \in MatchingRows(r) : row.expires_at < req[r].lookupTime

\* C7: on a miss followed by a successful provider call, the upsert leaves exactly one row
\* under the normalized foodText, holding the provider's data, the requested ai_provider,
\* hit_count 1 and expires_at 7 days after the write, whether or not a row was there
\* before; and the handler answers with status 200 and the provider's data.  The
\* provider call is successful when it returns a payload with its totals.
C7_MissStored ==
  /\ [][\A r \in Reqs : UpsertStep(r) =>
          \E row \in nutrition_cache' :
            /\ {x \in nutrition_cache' : x.food_query = NormKey(r)} = {row}
            /\ req[r].aiResult = "returned"
            /\ row.nutrition_data = req[r].nutritionData
            /\ row.ai_provider = req[r].aiProvider
            /\ row.hit_count = 1
            /\ row.expires_at = now + 7]_vars
  /\ [](\A r \in Reqs : req[r].aiResult = "returned" /\ req[r].nutritionData.hasTotals =>
          /\ req[r].pc \in {"upsert", "log", "done"}
          /\ req[r].pc # "upsert" => ops[r].upsert = 1
          /\ Done(r) =>
               req[r].resp = [status |-> 200, data |-> {req[r].nutritionData}, error |-> ""])

\* a request has replaced the expired row of an earlier request at time 8 and is answered
C7_Witness ==
  \E r \in Reqs : /\ Done(r) /\ ops[r].upsert = 1 /\ req[r].resp.status = 200
                  /\ nextId = 2
                  /\ \E row \in nutrition_cache :
                       /\ row.id = 1 /\ row.expires_at = 15
                       /\ row.nutrition_data = req[r].nutritionData

\* C8: a lookup made at or before the expires_at of the row under its normalized
\* foodText finds that row, and the request is answered with the nutrition_data of the
\* row; and between its upsert and the next upsert or clear a row keeps its key, its
\* nutrition_data and its expires_at.
C8_RoundTrip ==
  /\ [][/\ \A r \in Reqs : LookupStep(r) =>
             \A row \in MatchingRows(r) : now <= row.expires_at => req'[r].cached = {row}
        /\ (\A r \in Reqs : ops'[r].upsert = ops[r].upsert) /\ (req' # req \/ now' # now) =>
             \A row \in nutrition_cache : \E kept \in nutrition_cache' :
               /\ kept.food_query = row.food_query
               /\ kept.nutrition_data = row.nutrition_data
               /\ kept.expires_at = row.expires_at]_vars
  /\ [](\A r \in Reqs : Done(r) /\ req[r].cached # {} =>
          \E row \in req[r].cached :
            req[r].resp.status = 200 /\ req[r].resp.data = {row.nutrition_data})

\* a request has been answered with what another request wrote, from a lookup made
\* at the very time the row expires
C8_Witness ==
  \E w \in Reqs, r \in Reqs :
    /\ w # r /\ ops[w].upsert = 1 /\ req[w].nutritionData = PayloadOats
    /\ Done(r) /\ req[r].resp.data = {PayloadOats}
    /\ \E row \in req[r].cached : row.expires_at = req[r].lookupTime

\* C9: when the provider call of a request fails, for whichever reason, the handler
\* answers with status 200, the fallback data for the foodText and a non-empty error
\* annotation, and, when a userId was supplied, appends one usage record with status
\* ai_error, zero tokens, zero cost and the error message that was caught.
C9_ProviderFailure ==
  \A r \in Reqs : req[r].aiResult = "threw" =>
    /\ req[r].errorMessage # ""
    /\ Done(r) =>
         /\ req[r].resp.status = 200
         /\ req[r].resp.data = {fallbackOf(revision, bodyText(req[r]).text)}
         /\ req[r].resp.error # ""
         /\ IF req[r].userId = NoUser THEN RecordsOf(r) = {}
            ELSE \E u \in api_usage : /\ RecordsOf(r) = {u}
                                      /\ u.status = "ai_error"
                                      /\ u.tokens_used = 0 /\ u.cost_cents = 0
                                      /\ u.error_message = req[r].errorMessage

\* a request with a userId for an unsupported provider tag has been answered
C9_Witness ==
  \E r \in Reqs : /\ Done(r) /\ req[r].aiResult = "threw" /\ req[r].userId # NoUser
                  /\ req[r].errorMessage = "Unsupported AI provider"
                  /\ req[r].resp.status = 200

\* C10 as stated: a request with a non-blank foodText ends with a response of status
\* 200 or, through resolveNutrition, with a returned value or NutritionQuotaExceededError,
\* whatever the provider and the store do.
C10_NeverHardError ==
  \A r \in Reqs : Done(r) /\ ~BlankText(r) =>
    IF req[r].via = "client"
    THEN req[r].result.kind \in {"returned", "NutritionQuotaExceededError"}
    ELSE req[r].resp.status = 200

\* C11: within one request the provider is invoked at most once; after a provider
\* failure the request goes on to the fallback answer, never back to the provider call and
\* never to the upsert; and a request that called the provider is answered either with the
\* provider's data and no error annotation, or with the fallback data, never with both.
C11_SingleProviderCall ==
  \A r \in Reqs :
    /\ ops[r].provider <= 1
    /\ req[r].aiResult = "threw" =>
         ops[r].provider = 1 /\ req[r].pc \in {"log", "done"} /\ ops[r].upsert = 0
    /\ Done(r) /\ ops[r].provider = 1 =>
         \/ /\ req[r].aiResult = "returned"
            /\ req[r].resp = [status |-> 200, data |-> {req[r].nutritionData}, error |-> ""]
         \/ /\ req[r].resp.error # ""
            /\ req[r].resp.data = {fallbackOf(revision, bodyText(req[r]).text)}
            /\ req[r].resp.data # {req[r].nutritionData}
            /\ ops[r].upsert = 0

\* a request without userId whose provider call failed has been answered, after one call
C11_Witness ==
  \E r \in Reqs : /\ Done(r) /\ req[r].aiResult = "threw" /\ req[r].userId = NoUser
                  /\ ops[r].provider = 1 /\ req[r].resp.error # ""

\* C12: a request that passed validation, carries a userId and has been answered from
\* the cache, from the provider or from the fallback estimator has appended exactly one
\* usage record; a request without userId appends none and is not quota-checked.
C12_OneUsageRecord ==
  \A r \in Reqs :
    /\ Cardinality(RecordsOf(r)) <= 1
    /\ Done(r) /\ req[r].resp.status = 200 /\ req[r].userId # NoUser =>
         /\ Cardinality(RecordsOf(r)) = 1
         /\ \A u \in RecordsOf(r) :
              /\ u.user_id = req[r].userId
              /\ u.status \in {"cache_hit", "success", "ai_error"}
              /\ u.status = "cache_hit" <=> req[r].cached # {}
              /\ u.status = "success" <=> ops[r].upsert = 1
    /\ req[r].userId = NoUser => RecordsOf(r) = {} /\ ops[r].quota = 0 /\ ops[r].log = 0

\* a request with a userId has been answered with fresh provider data and has one record
C12_Witness ==
  \E r \in Reqs : /\ Done(r) /\ req[r].userId # NoUser /\ ops[r].upsert = 1
                  /\ \E u \in api_usage : RecordsOf(r) = {u} /\ u.status = "success"

\* C13: a failing storage write (the hit_count update, the cache upsert, the usage
\* insert) does not change the answer: a request that found a row is answered with status
\* 200 and the row's data, and a request whose provider call returned a payload with
\* totals is answered with status 200 and that payload, whether or not its writes failed.
C13_WriteFailureHidden ==
  \A r \in Reqs : Done(r) =>
    /\ \A row \in req[r].cached :
         req[r].resp = [status |-> 200, data |-> {row.nutrition_data}, error |-> ""]
    /\ req[r].aiResult = "returned" /\ req[r].nutritionData.hasTotals =>
         req[r].resp = [status |-> 200, data |-> {req[r].nutritionData}, error |-> ""]

\* a request whose upsert and usage insert both failed has been answered with the
\* provider's data
C13_Witness ==
  \E r \in Reqs : /\ Done(r) /\ ops[r].writeFail = 2 /\ ops[r].provider = 1
                  /\ req[r].resp = [status |-> 200, data |-> {PayloadOats}, error |-> ""]

\* the totals of a NutritionData are the sums of the macros of its items
TotalsAreSums(data) == data.hasTotals /\ data.totals = sumMacros(data.items)

\* C14 as stated: every NutritionData stored in the cache or returned in a response has
\* totals equal to the element-wise sum of the macros of its items.
C14_TotalsConsistent ==
  /\ \A row \in nutrition_cache : TotalsAreSums(row.nutrition_data)
  /\ \A r \in Reqs : Done(r) => \A data \in req[r].resp.data : TotalsAreSums(data)

(***************************************************************************)
(* The functions on their own: calculateConfidenceScore, calculateCost and *)
(* the fallback response of the catch block, each applied once to          *)
(* arguments drawn from bounded sets.                                      *)
(***************************************************************************)
MaxItems == 3

MaxLen == 3

ConfidenceValues == {10, 35, 80, 100}

TotalsValues ==
  {[kcal |-> k, protein |-> p, fat |-> 10, carbs |-> 10] : k \in {2000, 2001}, p \in {0, 10}}

scoredItem(c) ==
  [label |-> <<"a">>, qty |-> 100, unit |-> "g", confidence |-> c, macros |-> ZeroMacros]

\* NutritionData with 0..MaxItems items
ScoreArgs ==
  {[hasItems |-> TRUE, items |-> [i \in 1..Len(cs) |-> scoredItem(cs[i])],
    hasTotals |-> TRUE, totals |-> t] :
     cs \in UNION {[1..n -> ConfidenceValues] : n \in 0..MaxItems}, t \in TotalsValues}

TokenCounts == {0, 1, 1200, 40000, 280000, 1000000, 1120000}

CostProviders == {"gemini", "openai", "claude", "bogus"}

TextChars == {"a", "0", "2", " ", "\n"}

TextStrings == UNION {[1..n -> TextChars] : n \in 0..MaxLen}

(***************************************************************************)
(* parseQuantity of the food input: the four patterns, tried in order.     *)
(***************************************************************************)
\* the patterns after ^(\d+(?:\.\d+)?)\s* : the unit that must follow, its
\* optional last letter, and whether \s+ stands between the unit and (.+)
patterns ==
  << [unit |-> <<"g">>, opt |-> <<>>, gap |-> TRUE],
     [unit |-> <<"g", "r", "a", "m">>, opt |-> <<"s">>, gap |-> TRUE],
     [unit |-> <<"o", "z">>, opt |-> <<>>, gap |-> TRUE],
     [unit |-> <<>>, opt |-> <<>>, gap |-> FALSE] >>

\* the end of match[1] for the lengths t[1] of \d+ and t[2] of the digits of
\* (?:\.\d+)?, 0 when the group takes no part
NumberEnd(t) == t[1] + (IF t[2] > 0 THEN t[2] + 1 ELSE 0)

\* the end of the unit for the lengths t[3] of \s* and t[4] of the optional letter
UnitEnd(t, p) == NumberEnd(t) + t[3] + Len(p.unit) + t[4]

\* how many characters of a class the string holds
Count(s, class) == Cardinality({i \in 1..Len(s) : s[i] \in class})

\* the ways pattern p matches input: the lengths of \d+, of the digits after
\* the point, of \s*, of the optional letter and of \s+; /i compares in lower case
PatternMatches(input, p) ==
  { t \in (1..Count(input, Digits)) \X (0..Count(input, Digits))
            \X (0..Count(input, Spaces)) \X {0, Len(p.opt)}
            \X (0..Count(input, Spaces)) :
      /\ t[1] <= RunLen(input, 1, Digits)
      /\ t[2] > 0 => /\ t[1] + 2 <= Len(input)
                     /\ input[t[1] + 1] = "."
                     /\ t[2] <= RunLen(input, t[1] + 2, Digits)
      /\ NumberEnd(t) + t[3] <= Len(input)
      /\ t[3] <= RunLen(input, NumberEnd(t) + 1, Spaces)
      /\ UnitEnd(t, p) + t[5] < Len(input)
      /\ toLowerCase(SubSeq(input, NumberEnd(t) + t[3] + 1, UnitEnd(t, p)))
           = p.unit \o SubSeq(p.opt, 1, t[4])
      /\ t[5] <= RunLen(input, UnitEnd(t, p) + 1, Spaces)
      /\ IF p.gap THEN t[5] >= 1 ELSE t[5] = 0
      /\ \A j \in (UnitEnd(t, p) + t[5] + 1)..Len(input) : input[j] # "\n" }

\* parseFloat of digits with an optional point
parseFloat(s, t) ==
  IF t[2] = 0 THEN FromInt(parseInt(SubSeq(s, 1, t[1])))
  ELSE Literal(parseInt(SubSeq(s, 1, t[1]) \o SubSeq(s, t[1] + 2, t[1] + 1 + t[2])),
               10^t[2])

\* 1 oz = 28.35g
OunceGrams == Literal(2835, 100)

\* if (input.toLowerCase().includes('oz')) quantity = quantity * 28.35
ouncesToGrams(input, quantity) ==
  IF includes(toLowerCase(input), <<"o", "z">>) THEN FMul(quantity, OunceGrams)
  ELSE quantity

\* the return value for the match t of pattern p
parsedAs(input, p, t) ==
  [quantity |-> ouncesToGrams(input, parseFloat(input, t)),
   foodName |-> trim(SubSeq(input, UnitEnd(t, p) + t[5] + 1, Len(input)))]

\* for (const pattern of patterns): the first pattern that matches decides;
\* without a match, 100 g of the input
parseQuantity(input) ==
  LET hits == {n \in 1..Len(patterns) : PatternMatches(input, patterns[n]) # {}}
  IN  IF hits = {}
      THEN [quantity |-> FromInt(DefaultQty), foodName |-> trim(input)]
      ELSE parsedAs(input, patterns[Min(hits)],
                    FirstTried(PatternMatches(input, patterns[Min(hits)])))

\* what the user may have typed: a number, a unit and a name, with or without
\* spaces between them
Queries ==
  LET numbers == {<<>>, <<"5">>, <<"1", "2">>, <<"1", ".", "5">>}
      units == {<<>>, <<"g">>, <<"G">>, <<"g", "r", "a", "m">>, <<"g", "r", "a", "m", "s">>,
                <<"o", "z">>, <<"O", "z">>}
      names == {<<>>, <<"a">>, <<"d", "o", "z", "e", "n">>}
      gaps == {<<>>, <<" ">>}
  IN  {n \o g1 \o u \o g2 \o f :
         n \in numbers, g1 \in gaps, u \in units, g2 \in gaps, f \in names}

\* addFoodFromQuery and selectFood parse the query
Parse(input) ==
  /\ calc.fn = ""
  /\ calc' = [fn |-> "parseQuantity", arg |-> input, provider |-> "",
              result |-> parseQuantity(input)]
  /\ UNCHANGED <<daily_logs, calls, editor, revision, now, nutrition_cache, nextId, api_usage, req, ops>>

(***************************************************************************)
(* batchResolveNutrition of the client service.                            *)
(***************************************************************************)
batchSize == 3

\* the longest list of food texts a batch is called with
MaxBatch == 4

\* an index of the result array nothing was assigned to
Hole == [hole |-> TRUE]

\* createFallbackResponse(foodText); the id of the item, a time stamp, is left out
createFallbackResponse(foodText) ==
  [resolved |-> <<[entryId |-> "fallback", label |-> trim(foodText), qty |-> 100,
                   unit |-> "g", source |-> "fallback", confidence |-> 10,
                   macros |-> [kcal |-> 150, protein |-> 15, fat |-> 5]]>>,
   totals |-> [kcal |-> 150, protein |-> 15, fat |-> 5],
   errors |-> <<"AI service unavailable, showing estimated values">>]

\* the index without the offset of the batch
batchIndex_inBatch(i, index) == index

\* index: i + index
batchIndex(i, index) == i + index

\* one promise of batchPromises, settled: resolveNutrition threw for a blank
\* text or because the call failed, and the catch made a value of it, or it returned
settledPromise(foodText, outcome, index) ==
  IF isBlank([given |-> TRUE, text |-> foodText]) \/ ~outcome.ok
  THEN [status |-> "fulfilled", index |-> index, hasResult |-> FALSE, result |-> NoData]
  ELSE [status |-> "fulfilled", index |-> index, hasResult |-> TRUE, result |-> outcome.data]

\* results[index] = value, on an array whose indices start at 0
setAt(results, index, value) ==
  [n \in 1..(IF index + 1 > Len(results) THEN index + 1 ELSE Len(results)) |->
     IF n = index + 1 THEN value ELSE IF n <= Len(results) THEN results[n] ELSE Hole]

\* batchResults.forEach, from the promise of position k of the batch that starts at i
RECURSIVE forEachResult(_, _, _, _, _)
forEachResult(results, foodTexts, outcomes, i, k) ==
  IF k >= batchSize \/ i + k >= Len(foodTexts) THEN results
  ELSE LET p == settledPromise(foodTexts[i + k + 1], outcomes[i + k + 1], batchIndex(i, k))
           value == IF p.status = "fulfilled" /\ p.hasResult THEN p.result
                    ELSE createFallbackResponse(foodTexts[p.index + 1])
       IN  forEachResult(setAt(results, p.index, value), foodTexts, outcomes, i, k + 1)

\* for (let i = 0; i < foodTexts.length; i += batchSize)
RECURSIVE batchLoop(_, _, _, _)
batchLoop(results, foodTexts, outcomes, i) ==
  IF i >= Len(foodTexts) THEN results
  ELSE batchLoop(forEachResult(results, foodTexts, outcomes, i, 0), foodTexts, outcomes,
                 i + batchSize)

\* batchResolveNutrition(foodTexts), outcomes[n] being what the service does for
\* the n-th text
batchResolveNutrition(foodTexts, outcomes) ==
  IF Len(foodTexts) = 0 THEN <<>> ELSE batchLoop(<<>>, foodTexts, outcomes, 0)

\* what may happen to one call of resolveNutrition: it throws, or it returns a
\* response
Resolutions ==
  {[ok |-> FALSE, data |-> NoData]} \cup {[ok |-> TRUE, data |-> p] : p \in {PayloadChicken, PayloadOats}}

BatchTexts == {<<"a", " ">>, <<" ">>}

Batch(foodTexts, outcomes) ==
  /\ calc.fn = ""
  /\ calc' = [fn |-> "batchResolveNutrition",
              arg |-> [foodTexts |-> foodTexts, outcomes |-> outcomes], provider |-> "",
              result |-> batchResolveNutrition(foodTexts, outcomes)]
  /\ UNCHANGED <<daily_logs, calls, editor, revision, now, nutrition_cache, nextId, api_usage, req, ops>>

Score(data) ==
  /\ calc.fn = ""
  /\ revision = "gemini"
  /\ calc' = [fn |-> "calculateConfidenceScore", arg |-> data, provider |-> "",
              result |-> calculateConfidenceScore(data)]
  /\ UNCHANGED <<daily_logs, calls, editor, revision, now, nutrition_cache, nextId, api_usage, req, ops>>

Cost(tokens, provider) ==
  /\ calc.fn = ""
  /\ calc' = [fn |-> "calculateCost", arg |-> tokens, provider |-> provider,
              result |-> IF revision = "multi" THEN calculateCost_multi(tokens, provider)
                         ELSE calculateCost(tokens, provider)]
  /\ UNCHANGED <<daily_logs, calls, editor, revision, now, nutrition_cache, nextId, api_usage, req, ops>>

\* the catch block's response to a validated foodText
Estimate(foodText) ==
  /\ calc.fn = ""
  /\ ~isBlank([given |-> TRUE, text |-> foodText])
  /\ calc' = [fn |-> "generateFallbackResponse", arg |-> foodText, provider |-> "",
              result |-> Fallback200(revision, foodText)]
  /\ UNCHANGED <<daily_logs, calls, editor, revision, now, nutrition_cache, nextId, api_usage, req, ops>>

NextPure ==
  \/ \E data \in ScoreArgs : Score(data)
  \/ \E tokens \in TokenCounts, provider \in CostProviders : Cost(tokens, provider)
  \/ \E foodText \in TextStrings : Estimate(foodText)
  \/ \E input \in Queries : Parse(input)
  \/ \E n \in 0..MaxBatch :
       \E foodTexts \in [1..n -> BatchTexts], outcomes \in [1..n -> Resolutions] :
         Batch(foodTexts, outcomes)

SpecPure == InitClient /\ [][NextPure]_vars

\* the sum of the confidences of the items, in hundredths
RECURSIVE confidenceTotal(_)
confidenceTotal(items) ==
  IF Len(items) = 0 THEN 0
  ELSE confidenceTotal(SubSeq(items, 1, Len(items) - 1)) + items[Len(items)].confidence

\* the stated product, in hundredths, times Len(items) * 1000: the sum of the
\* confidences times 0.8 if kcal > 2000, times 1.1 if protein, fat and carbs
\* are all > 0, times 0.9 if every confidence is 0.8
statedProduct(data) ==
  confidenceTotal(data.items)
  * (IF data.totals.kcal > 2000 THEN 8 ELSE 10)
  * (IF data.totals.protein > 0 /\ data.totals.fat > 0 /\ data.totals.carbs > 0
     THEN 11 ELSE 10)
  * (IF \A i \in 1..Len(data.items) : data.items[i].confidence = 80 THEN 9 ELSE 10)

\* score is min(1.0, the stated product rounded to two decimals), either
\* neighbour being accepted where the product lies half way between two
statedScore(data, score) ==
  IF 2 * statedProduct(data) >= 199 * Len(data.items) * 1000 THEN score = 100
  ELSE /\ 2 * (score * Len(data.items) * 1000 - statedProduct(data)) <= Len(data.items) * 1000
       /\ 2 * (statedProduct(data) - score * Len(data.items) * 1000) <= Len(data.items) * 1000

\* C15 as stated: calculateConfidenceScore returns 0 for an empty item list and
\* otherwise min(1.0, round2(mean confidence x 0.8 if kcal > 2000 x 1.1 if protein,
\* fat and carbs are all > 0 x 0.9 if all confidences are identical and equal 0.8));
\* the result lies in [0, 1].
C15_ScoreFormula ==
  calc.fn = "calculateConfidenceScore" =>
    /\ calc.result \in 0..100
    /\ IF Len(calc.arg.items) = 0 THEN calc.result = 0
       ELSE statedScore(calc.arg, calc.result)

\* the rate of a provider in cents per million tokens, the default rate for a
\* provider that is not in the table
statedRate(rev, provider) ==
  IF rev = "multi"
  THEN (CASE provider = "openai" -> 50 [] provider = "gemini" -> 25
          [] provider = "claude" -> 30 [] OTHER -> 50)
  ELSE 25

\* C16 as stated: calculateCost is the least integer c with
\* c >= tokens x rate x 100 / 1000000 (0 for 0 tokens, at least 1 for any positive
\* token count, never below the exact charge); an unknown provider is charged at
\* the default rate.
C16_CostIsCeiling ==
  calc.fn = "calculateCost" =>
    /\ calc.result * 1000000 >= calc.arg * statedRate(revision, calc.provider)
    /\ (calc.result - 1) * 1000000 < calc.arg * statedRate(revision, calc.provider)

\* the function the catch block has called on its own, and its response
Estimated == calc.fn = "generateFallbackResponse"

\* C17: the fallback estimator never fails: for every validated foodText the catch
\* block answers with status 200, a NutritionData with items and totals that has at
\* least one item, and the error annotation.
C17_FallbackNeverFails ==
  Estimated =>
    /\ ~isBlank([given |-> TRUE, text |-> calc.arg])
    /\ calc.result.status = 200
    /\ calc.result.error # ""
    /\ Cardinality(calc.result.data) = 1
    /\ \A data \in calc.result.data :
         data.hasItems /\ data.hasTotals /\ Len(data.items) >= 1

\* a text whose only non-blank line names no food of the table has been estimated
C17_Witness ==
  /\ Estimated
  /\ calc.arg = <<" ", "2", "\n">>
  /\ \A data \in calc.result.data : Len(data.items) = 1 /\ data.items[1].qty = DefaultQty

\* items has one item per non-blank line of foodText, in the order of the
\* lines, each labelled with its line and each with the given confidence
OneItemPerLine(foodText, items, confidence) ==
  /\ Len(items) = Len(nonBlankLines(foodText))
  /\ \A n \in 1..Len(items) :
       /\ items[n].label = trim(nonBlankLines(foodText)[n])
       /\ items[n].confidence = confidence

C19_ExpiryFromCreation ==
  \A row \in nutrition_cache : row.expires_at = row.created_at + TTL_DAYS

\* requests a and b have both missed the cache on the same key and have both
\* got data from the provider
BothMissed(a, b) ==
  /\ a # b
  /\ NormKey(a) = NormKey(b)
  /\ req[a].logStatus = "success" /\ req[b].logStatus = "success"

\* C20: concurrent misses on the same key each make their own provider call and their
\* own upsert: every upsert leaves exactly one row under the key, holding the data of
\* the request that made it, no other step of a request changes the data of a row, and
\* so once all have completed the one row under the key holds the nutrition_data of
\* the last upsert.
C20_LastWriterWins ==
  /\ [][\A r \in Reqs : UpsertStep(r) =>
          /\ \E row \in nutrition_cache' :
               /\ {x \in nutrition_cache' : x.food_query = NormKey(r)} = {row}
               /\ row.nutrition_data = req[r].nutritionData
          /\ \A row \in nutrition_cache :
               row.food_query # NormKey(r) => row \in nutrition_cache']_vars
  /\ [][(req' # req /\ \A r \in Reqs : ~UpsertStep(r)) =>
          /\ Cardinality(nutrition_cache') = Cardinality(nutrition_cache)
          /\ \A row \in nutrition_cache : \E kept \in nutrition_cache' :
               kept.food_query = row.food_query /\ kept.nutrition_data = row.nutrition_data]_vars
  /\ [](\A a, b \in Reqs : BothMissed(a, b) /\ Done(a) /\ Done(b) =>
          /\ ops[a].provider = 1 /\ ops[a].upsert = 1
          /\ ops[b].provider = 1 /\ ops[b].upsert = 1
          /\ Cardinality(MatchingRows(a)) <= 1
          /\ \A row \in MatchingRows(a) :
               row.nutrition_data \in {req[a].nutritionData, req[b].nutritionData})

\* two requests for the same key have both looked up an empty cache at time 0, have
\* got different data from the provider and are answered; the first upsert inserted
\* the row, the second wrote over it
C20_Witness ==
  /\ BothMissed(1, 2) /\ Done(1) /\ Done(2)
  /\ req[1].lookupTime = 0 /\ req[2].lookupTime = 0 /\ now = 0
  /\ req[1].nutritionData # req[2].nutritionData
  /\ ops[1].upsert = 1 /\ ops[2].upsert = 1
  /\ nextId = 2
  /\ \E row \in nutrition_cache :
       /\ MatchingRows(1) = {row}
       /\ row.id = 1
       /\ row.nutrition_data = req[2].nutritionData

(***************************************************************************)
(* Properties of the cache key, of the order of the handler's steps and of *)
(* what the cache may hold.                                                *)
(***************************************************************************)
\* a string in normalized form: no upper-case letter, no space at either end
IsNormalized(s) ==
  /\ \A i \in 1..Len(s) : s[i] = ToLowerChar(s[i])
  /\ Len(s) > 0 => ~IsSpace(s[1]) /\ ~IsSpace(s[Len(s)])

\* C21: the food_query of every row of the cache is in normalized form (lower case, no
\* leading or trailing whitespace), and a request whose foodText differs from that of an
\* earlier request only in letter case or surrounding whitespace looks up the row the
\* earlier request wrote and, while that row is unexpired, is served from it.
C21_SameKey ==
  /\ [](\A row \in nutrition_cache : IsNormalized(row.food_query))
  /\ [][\A r, s \in Reqs :
          /\ LookupStep(s) /\ r # s /\ ops[r].upsert = 1
          /\ NormKey(r) = NormKey(s)
          => \A row \in MatchingRows(r) :
               /\ row.nutrition_data = req[r].nutritionData
               /\ row.expires_at >= now => req'[s].cached = {row}]_vars

\* a request for "A " has been answered from the row a request for "a" wrote
C21_Witness ==
  /\ req[1].foodText = <<"a">> /\ ops[1].upsert = 1
  /\ req[1].nutritionData = PayloadOats
  /\ req[2].foodText = <<"A", " ">> /\ Done(2) /\ ops[2].hit = 1
  /\ req[2].resp = [status |-> 200, data |-> {PayloadOats}, error |-> ""]

\* C22 as stated: every item of a fallback response has a qty above 0.
C22_PositiveQty ==
  Estimated =>
    \A data \in calc.result.data : \A i \in 1..Len(data.items) : data.items[i].qty > 0

\* request r takes the step that appends its usage record
LogStep(r) == ops'[r].log > ops[r].log

\* C23 as stated: within a request the steps occur only in the order quota check, cache
\* lookup, provider call, cache write, usage log, response, and the usage record is
\* appended only when the request already holds the data of its response (cached,
\* fresh or fallback-estimated), on every path.
C23_LogAfterData ==
  [][\A r \in Reqs :
       /\ ops'[r].quota > ops[r].quota =>
            ops[r].lookup = 0 /\ ops[r].provider = 0 /\ ops[r].upsert = 0 /\ ops[r].log = 0
       /\ ops'[r].lookup > ops[r].lookup =>
            ops[r].provider = 0 /\ ops[r].upsert = 0 /\ ops[r].log = 0
       /\ ops'[r].provider > ops[r].provider => ops[r].upsert = 0 /\ ops[r].log = 0
       /\ ops'[r].upsert > ops[r].upsert => ops[r].log = 0
       /\ req'[r].resp # req[r].resp => req[r].resp = NoResp /\ Done(r)'
       /\ LogStep(r) => req'[r].resp.data = {req[r].nutritionData}]_vars

\* row is a row of old with at most its hit_count changed
SameButHits(row, old) == [old EXCEPT !.hit_count = row.hit_count] = row

\* C24: a row is created or overwritten only by the upsert step of a request whose
\* lookup missed and whose provider call returned, and it then holds the data the
\* provider returned; a request that ended in the fallback estimator, a cache hit, a
\* validation error or a quota error has made no upsert; so every row holds data a
\* provider returned.
C24_CachedOnlyOnSuccess ==
  /\ [][\A row \in nutrition_cache' :
          (\A old \in nutrition_cache : ~SameButHits(row, old)) =>
            \E r \in Reqs : /\ UpsertStep(r)
                            /\ ops[r].lookup = 1 /\ req[r].cached = {}
                            /\ ops[r].provider = 1 /\ req[r].aiResult = "returned"
                            /\ row.nutrition_data = req[r].nutritionData]_vars
  /\ [](\A r \in Reqs :
          \/ req[r].resp.error # ""
          \/ req[r].cached # {}
          \/ req[r].result.kind \in {"NutritionApiError", "NutritionQuotaExceededError"}
               /\ req[r].resp = NoResp
          => ops[r].upsert = 0)
  /\ [](\A row \in nutrition_cache : row.nutrition_data \in Payloads)

\* a request that found the row expired has been answered by the fallback estimator
\* and the row is as it was
C24_Witness ==
  /\ Done(1) /\ ops[1].provider = 1 /\ req[1].aiResult = "threw"
  /\ req[1].resp.status = 200 /\ req[1].resp.error # ""
  /\ SeedRow(revision) \in nutrition_cache
  /\ SeedRow(revision).expires_at < req[1].lookupTime

(***************************************************************************)
(* Properties of the quantities the estimators read from a line.           *)
(***************************************************************************)
\* the number of digits the line ends with
TrailLen(s) ==
  LET ends == {n \in 0..Len(s) : \A j \in (Len(s) - n + 1)..Len(s) : s[j] \in Digits}
  IN  CHOOSE n \in ends : \A m \in ends : m <= n

\* the line is one the statement speaks of: it starts or ends with a number, or
\* holds no digit at all
StatedLine(s) ==
  \/ RunLen(s, 1, Digits) > 0
  \/ TrailLen(s) > 0
  \/ \A j \in 1..Len(s) : s[j] \notin Digits

\* the whole number at the start of the line, else the one at its end, else 100
statedQty(s) ==
  IF RunLen(s, 1, Digits) > 0 THEN parseInt(SubSeq(s, 1, RunLen(s, 1, Digits)))
  ELSE IF TrailLen(s) > 0 THEN parseInt(SubSeq(s, Len(s) - TrailLen(s) + 1, Len(s)))
  ELSE DefaultQty

\* the readings of "the line without that number and unit": after a leading number
\* any run of letters may be the unit; before a trailing number the name is the rest
statedNames(s) ==
  IF RunLen(s, 1, Digits) > 0
  THEN {trim(SubSeq(s, k, Len(s))) :
          k \in {k \in (RunLen(s, 1, Digits) + 1)..(Len(s) + 1) :
                   \A j \in (RunLen(s, 1, Digits) + 1)..(k - 1) :
                     s[j] \in Spaces \cup LowerLetters}}
  ELSE IF TrailLen(s) > 0 THEN {trim(SubSeq(s, 1, Len(s) - TrailLen(s)))}
  ELSE {s}

\* the item holds the stated quantity of the line and the macros of its stated name
statedItem(item, s) ==
  /\ item.qty = statedQty(s)
  /\ item.unit = "g"
  /\ \E name \in statedNames(s) :
       item.macros = scaledItem(item.label, statedQty(s), lookupNutrition(name)).macros

\* C25 as stated: for each line the fallback estimator's qty is the whole number at
\* the start of the line or at its end, all digits of it, the macros are those of the
\* line without that number and unit, and a line without a number gets qty 100 and
\* unit "g".
C25_StatedQuantity ==
  Estimated /\ revision = "gemini" =>
    \A data \in calc.result.data :
      \A n \in 1..Len(data.items) :
        LET s == toLowerCase(trim(nonBlankLines(calc.arg)[n]))
        IN  StatedLine(s) => statedItem(data.items[n], s)

\* the first pattern of parseQuantity that matches the input, 0 when none does
firstPattern(input) ==
  IF \A n \in 1..Len(patterns) : PatternMatches(input, patterns[n]) = {} THEN 0
  ELSE Min({n \in 1..Len(patterns) : PatternMatches(input, patterns[n]) # {}})

\* the number the pattern n captured from the input
capturedNumber(input, n) == parseFloat(input, FirstTried(PatternMatches(input, patterns[n])))

\* C26 as stated: parseQuantity tries the rules g, grams, oz, bare number in order and
\* the first that matches decides; the quantity is the captured number times 28.35
\* exactly when the oz rule matched, the captured number itself under the g, grams and
\* bare-number rules, and 100 when no rule matches.
C26_OuncesByRule ==
  calc.fn = "parseQuantity" =>
    IF firstPattern(calc.arg) = 0 THEN calc.result.quantity = FromInt(100)
    ELSE calc.result.quantity =
           IF firstPattern(calc.arg) = 3
           THEN FMul(capturedNumber(calc.arg, 3), OunceGrams)
           ELSE capturedNumber(calc.arg, firstPattern(calc.arg))

(***************************************************************************)
(* Properties of the client service.                                       *)
(***************************************************************************)
\* C27 as stated: whenever the handler answers a call of resolveNutrition with status
\* 200 and a body whose data holds items and totals, resolveNutrition returns instead
\* of throwing.
C27_WellFormedReturned ==
  \A r \in Reqs :
    /\ Done(r) /\ req[r].via = "client"
    /\ req[r].resp.status = 200
    /\ \E data \in req[r].resp.data : data.hasItems /\ data.hasTotals
    => req[r].result.kind = "returned"

\* C28: batchResolveNutrition returns an array as long as its input and without holes,
\* whose n-th element is what resolveNutrition returned for the n-th text when that call
\* succeeded and the fallback response built from the n-th text when it threw; no
\* failure of a call makes the batch fail.
C28_BatchComplete ==
  calc.fn = "batchResolveNutrition" =>
    /\ Len(calc.result) = Len(calc.arg.foodTexts)
    /\ \A n \in 1..Len(calc.result) :
         /\ calc.result[n] # Hole
         /\ IF calc.arg.outcomes[n].ok /\ trim(calc.arg.foodTexts[n]) # <<>>
            THEN calc.result[n] = calc.arg.outcomes[n].data
            ELSE calc.result[n] = createFallbackResponse(calc.arg.foodTexts[n])

\* a batch of four texts, one more than a batch holds, of which the first call threw
\* and the last returned
C28_Witness ==
  /\ calc.fn = "batchResolveNutrition"
  /\ Len(calc.arg.foodTexts) = 4
  /\ ~calc.arg.outcomes[1].ok /\ calc.result[1].totals.kcal = 150
  /\ calc.arg.outcomes[4].ok /\ calc.arg.foodTexts[4] = <<"a", " ">>
  /\ calc.result[4] = PayloadOats

(***************************************************************************)
(* Properties of the editor and of the daily log.                          *)
(***************************************************************************)
\* every change of the text came less than 1000 ms after the change before it
Burst ==
  \A n \in 2..Len(editor.changes) :
    editor.changes[n].at - editor.changes[n - 1].at < DebounceMs

\* C29 as stated: for a burst of text changes, each less than 1000 ms after the one
\* before, processDocumentChanges runs exactly once, with the text of the last change
\* and when no timer is left, and no line is added as an entry more than once.
C29_Debounced ==
  Burst /\ editor.changes # <<>> =>
    /\ editor.runs # <<>> \/ editor.timers = {} =>
         /\ editor.runs = <<editor.changes[Len(editor.changes)].text>>
         /\ editor.timers = {}
    /\ \A i, j \in 1..Len(editor.added) : i # j => editor.added[i] # editor.added[j]

\* the ids of the entries of the persisted log of a date
PersistedIds(date) ==
  {daily_logs[date].entries[n].id : n \in 1..Len(daily_logs[date].entries)}

\* C30 as stated: once every call of addFoodEntry and deleteFoodEntry for a date has
\* completed, however their steps interleaved, the persisted log of the date holds every
\* added entry no call deleted and no entry a call deleted, and its totals are the sum
\* of the nutrition of its entries.
C30_NothingLost ==
  (\A c \in 1..MaxCalls : calls[c].pc \in {"idle", "done"}) =>
    \A date \in Dates :
      /\ \A c \in 1..MaxCalls :
           /\ calls[c].kind = "add" /\ calls[c].date = date
           /\ \A b \in 1..MaxCalls : calls[b].entryId # calls[c].entry.id
           => calls[c].entry.id \in PersistedIds(date)
      /\ \A c \in 1..MaxCalls :
           /\ calls[c].kind = "delete" /\ calls[c].date = date
           /\ \E n \in 1..Len(calls[c].dailyLog.entries) :
                calls[c].dailyLog.entries[n].id = calls[c].entryId
           => calls[c].entryId \notin PersistedIds(date)
      /\ daily_logs[date].totals = sumNutrition(daily_logs[date].entries)

====
